---- MODULE Spec2Model ----
(***************************************************************************)
(* Model of the proxy mediator: the agent's two distinguished connections, *)
(* the connection state machine, the routing (forward) handler and the     *)
(* coordinate-mediation module, as driven by main() and by inbound         *)
(* messages.                                                               *)
(*                                                                         *)
(* Specifications.  Spec is the running proxy: main() from an empty store  *)
(* or from a store that holds both connections, the admin route and every  *)
(* inbound message on every registered connection.  ForwardSpec,           *)
(* MediationSpec, KeylistSpec and MachineSpec apply one module's           *)
(* operations to every input from every state of the slots, of the         *)
(* mediation state and of the machine.  HandshakeSpec runs the legacy and  *)
(* the DID-exchange handshakes with the routes of both modules in the      *)
(* dispatcher; InviterSpec and InviteeSpec are its two sides.              *)
(* StoreSpec runs the store's writes over every shape of connection,       *)
(* PostSpec the web server's POST route over envelopes with several        *)
(* recipients, and RestartSpec main() from a saved store with the message  *)
(* retriever's tasks up to the end of stop().  RouteSpec dispatches every   *)
(* message type on each module's routes, PeerDocSpec is the invitee's side *)
(* with responses whose DID document carries any endpoint, and             *)
(* BootstrapSpec is main() from an empty store with the messages of its    *)
(* mediator and agent.                                                     *)
(*                                                                         *)
(* Conventions.  A Python str is a sequence of one-character strings where *)
(* the code inspects or builds it (keys, did:key), and an atomic TLA+      *)
(* string where the code only passes it on (endpoints, error codes).       *)
(* bytes are sequences of 0..255.  Optional[T] is <<>> (None) or <<v>>.    *)
(***************************************************************************)
EXTENDS Integers, Sequences, FiniteSets, TLC

\* ------------------------------------------------------------------------
\* Bounds of the model
\* ------------------------------------------------------------------------

\* Longest routing_keys list an upstream mediate-grant carries.
MaxRoutingKeys == 2

\* Longest updates list a keylist-update carries.
MaxUpdates == 2

\* Tasks that call request_mediation_from_external in MediationSpec and
\* send_keylist_update in KeylistSpec.
MaxCallers == 2

\* Calls of Agent.receive_mediator_invite in one run.
MaxInvites == 1

\* Connections whose machine is exercised in MachineSpec.
MaxMachines == 2

\* Invitations made by create_invitation in HandshakeSpec.
MaxInvitations == 1

\* ------------------------------------------------------------------------
\* Strings, bytes, base58, multicodec, multibase, did:key
\* ------------------------------------------------------------------------

\* The bitcoin base58 alphabet used by crypto.bytes_to_b58 / b58_to_bytes.
Alphabet ==
  << "1","2","3","4","5","6","7","8","9",
     "A","B","C","D","E","F","G","H","J","K","L","M","N","P","Q","R","S","T",
     "U","V","W","X","Y","Z",
     "a","b","c","d","e","f","g","h","i","j","k","m","n","o","p","q","r","s",
     "t","u","v","w","x","y","z" >>

startswith(s, p) == Len(s) >= Len(p) /\ SubSeq(s, 1, Len(p)) = p

IsZero(bytes) == \A i \in 1..Len(bytes) : bytes[i] = 0

RECURSIVE LeadingCount(_, _)
LeadingCount(s, x) ==
  IF s = <<>> \/ Head(s) # x THEN 0 ELSE 1 + LeadingCount(Tail(s), x)

RECURSIVE StripLeading(_, _)
StripLeading(s, x) ==
  IF s = <<>> \/ Head(s) # x THEN s ELSE StripLeading(Tail(s), x)

\* Long division of a big-endian byte string by 58: <<quotient, remainder>>.
RECURSIVE DivMod58(_, _)
DivMod58(bytes, acc) ==
  IF bytes = <<>> THEN acc
  ELSE LET cur == acc[2] * 256 + Head(bytes)
       IN  DivMod58(Tail(bytes), <<Append(acc[1], cur \div 58), cur % 58>>)

RECURSIVE B58Digits(_)
B58Digits(bytes) ==
  IF IsZero(bytes) THEN <<>>
  ELSE LET qr == DivMod58(bytes, << <<>>, 0 >>)
       IN  Append(B58Digits(qr[1]), Alphabet[qr[2] + 1])

\* crypto.bytes_to_b58: one "1" per leading zero byte, then the base-58 digits.
bytes_to_b58(bytes) ==
  [i \in 1..LeadingCount(bytes, 0) |-> "1"] \o B58Digits(bytes)

IsB58(s) == \A i \in 1..Len(s) : \E k \in 1..58 : Alphabet[k] = s[i]

CharIndex(ch) == (CHOOSE k \in 1..58 : Alphabet[k] = ch) - 1

\* bytes * 58 + d on a fixed-width big-endian byte string, from the last byte.
RECURSIVE MulAdd58(_, _)
MulAdd58(bytes, d) ==
  IF bytes = <<>> THEN <<>>
  ELSE LET n   == Len(bytes)
           cur == bytes[n] * 58 + d
       IN  Append(MulAdd58(SubSeq(bytes, 1, n - 1), cur \div 256), cur % 256)

RECURSIVE B58Number(_, _)
B58Number(s, acc) ==
  IF s = <<>> THEN acc
  ELSE B58Number(Tail(s), MulAdd58(acc, CharIndex(Head(s))))

\* crypto.b58_to_bytes: one zero byte per leading "1", then the number's bytes.
b58_to_bytes(s) ==
  [i \in 1..LeadingCount(s, "1") |-> 0]
    \o StripLeading(B58Number(s, [i \in 1..Len(s) |-> 0]), 0)

\* multicodec.wrap("ed25519-pub", key): the varint of 0xed, then the key.
multicodec_wrap(key) == <<237, 1>> \o key

\* multicodec.unwrap: the codec's name and the bytes after the prefix.
multicodec_unwrap(bytes) ==
  IF startswith(bytes, <<237, 1>>)
  THEN [codec |-> "ed25519-pub", data |-> SubSeq(bytes, 3, Len(bytes))]
  ELSE [codec |-> "other", data |-> bytes]

\* multibase.encode(bytes, "base58btc") and multibase.decode.
multibase_encode(bytes) == <<"z">> \o bytes_to_b58(bytes)

multibase_decode(s) == b58_to_bytes(Tail(s))

DidKeyPrefix == <<"d","i","d",":","k","e","y",":">>

verkey_to_didkey(verkey) ==
  DidKeyPrefix \o multibase_encode(multicodec_wrap(verkey))

verkey_b58_to_didkey(verkey) == verkey_to_didkey(b58_to_bytes(verkey))

RECURSIVE UpTo(_, _)
UpTo(s, ch) ==
  IF s = <<>> \/ Head(s) = ch THEN <<>> ELSE <<Head(s)>> \o UpTo(Tail(s), ch)

\* didkey_to_verkey: [ok, verkey]; not ok stands for the ProtocolError (or
\* the decoder's error) raised on anything but an ed25519-pub did:key.
didkey_to_verkey(didkey) ==
  LET multikey == UpTo(SubSeq(didkey, 9, Len(didkey)), "#")
  IN  IF multikey = <<>> \/ Head(multikey) # "z" \/ ~IsB58(Tail(multikey))
      THEN [ok |-> FALSE, verkey |-> <<>>]
      ELSE LET u == multicodec_unwrap(multibase_decode(multikey))
           IN  [ok |-> u.codec = "ed25519-pub", verkey |-> u.data]

\* ------------------------------------------------------------------------
\* Connection state machine (python-statemachine: a state's value is the
\* name of the class attribute that holds it)
\* ------------------------------------------------------------------------

States ==
  { "null", "invite_sent", "invite_received", "request_sent",
    "request_received", "response_sent", "response_received", "complete" }

\* Events the machine defines.
MachineEvents ==
  { "send_invite", "receive_request", "send_response", "receive_invite",
    "send_request", "receive_response", "send_ping", "receive_ping",
    "send_ping_response", "receive_ping_response" }

\* Events the protocol handlers call; send_complete and receive_complete are
\* called by the DID-exchange handlers and are no attribute of the machine.
Events == MachineEvents \cup { "send_complete", "receive_complete" }

\* A table with the fault of a second target for receive_ping in complete.
TransitionsForked ==
  { <<"send_invite", "null", "invite_sent">>,
    <<"receive_request", "invite_sent", "request_received">>,
    <<"send_response", "request_received", "response_sent">>,
    <<"receive_invite", "null", "invite_received">>,
    <<"send_request", "invite_received", "request_sent">>,
    <<"receive_response", "request_sent", "response_received">>,
    <<"send_ping", "response_received", "complete">>,
    <<"send_ping", "complete", "complete">>,
    <<"receive_ping", "response_sent", "complete">>,
    <<"receive_ping", "complete", "complete">>,
    <<"receive_ping", "complete", "response_sent">>,
    <<"send_ping_response", "complete", "complete">>,
    <<"receive_ping_response", "complete", "complete">> }

\* A table with the fault of an invitation that takes a request again once it
\* has received one.
TransitionsRequestRepeated ==
  { <<"send_invite", "null", "invite_sent">>,
    <<"receive_request", "invite_sent", "request_received">>,
    <<"receive_request", "request_received", "request_received">>,
    <<"send_response", "request_received", "response_sent">>,
    <<"receive_invite", "null", "invite_received">>,
    <<"send_request", "invite_received", "request_sent">>,
    <<"receive_response", "request_sent", "response_received">>,
    <<"send_ping", "response_received", "complete">>,
    <<"send_ping", "complete", "complete">>,
    <<"receive_ping", "response_sent", "complete">>,
    <<"receive_ping", "complete", "complete">>,
    <<"send_ping_response", "complete", "complete">>,
    <<"receive_ping_response", "complete", "complete">> }

\* The transition table: <<event, from, to>>.
Transitions ==
  { <<"send_invite", "null", "invite_sent">>,
    <<"receive_request", "invite_sent", "request_received">>,
    <<"send_response", "request_received", "response_sent">>,
    <<"receive_invite", "null", "invite_received">>,
    <<"send_request", "invite_received", "request_sent">>,
    <<"receive_response", "request_sent", "response_received">>,
    <<"send_ping", "response_received", "complete">>,
    <<"send_ping", "complete", "complete">>,
    <<"receive_ping", "response_sent", "complete">>,
    <<"receive_ping", "complete", "complete">>,
    <<"send_ping_response", "complete", "complete">>,
    <<"receive_ping_response", "complete", "complete">> }

Targets(s, e) == { t[3] : t \in { x \in Transitions : x[1] = e /\ x[2] = s } }

\* ConnectionMachine(conn).<event>(): the connection's next state, or the
\* error raised, which leaves the state as it was.
ConnectionMachine(s, e) ==
  IF e \notin MachineEvents
  THEN [error |-> "AttributeError", state |-> s]
  ELSE IF Targets(s, e) = {}
  THEN [error |-> "TransitionNotAllowed", state |-> s]
  ELSE [error |-> "", state |-> CHOOSE t \in Targets(s, e) : TRUE]

\* ------------------------------------------------------------------------
\* Connections
\* ------------------------------------------------------------------------

\* The unset value of a slot that holds a connection or a future's result.
None == 0

\* A connection is known by its index in conn; its key pair is drawn at
\* random by the code and is a fixed function of the index here.  The first
\* connection's key starts with a zero byte.
verkey(c) == <<c - 1, 10 + c>>

verkey_b58(c) == bytes_to_b58(verkey(c))

Target(recipients, endpoint) == [recipients |-> recipients, endpoint |-> endpoint]

\* Connection.__init__ (through Connection.random): fut is the connection
\* whose constructor made the _completed future this connection holds.
Connection(fut, target) ==
  [ state |-> "null", fut |-> fut, multiuse |-> FALSE,
    invitation_key |-> <<>>, target |-> target, diddoc |-> <<>> ]

\* Connection.from_invite: a fresh connection c that takes the invitation's
\* state and future, and its key as invitation_key.
from_invite(i, invite, c, target) ==
  [ Connection(c, target) EXCEPT
      !.state = invite.state,
      !.fut = invite.fut,
      !.invitation_key = <<verkey_b58(i)>> ]

\* Keys and endpoints of the peers, and the proxy's own endpoint.
MediatorInvitationKey == <<3, 1>>
MediatorKey == <<3, 2>>
AgentKey == <<4, 1>>
StrangerKey == <<5, 1>>
MediatorEndpoint == "http://mediator:3000"
AgentEndpoint == "http://agent:3001"
ProxyEndpoint == "http://proxy:3002"

\* ------------------------------------------------------------------------
\* Messages
\* ------------------------------------------------------------------------

\* An inbound message as the handlers read it; fields a type does not carry
\* are left at these values.  to, msg, endpoint, routing_keys, did and
\* diddoc are Optional: <<>> when the message has no such field.  diddoc is
\* the DID document the message carries (connection.DIDDoc, the signed
\* connection block or did_doc~attach); signer and sig_ok are the key and
\* the validity of the signature over it.
Msg(kind) ==
  [ kind |-> kind, to |-> <<>>, msg |-> <<>>, endpoint |-> <<>>,
    routing_keys |-> <<>>, updates |-> <<>>, signer |-> <<>>, sig_ok |-> TRUE,
    did |-> <<>>, diddoc |-> <<>> ]

\* The part of a DID document the handlers read: service[0], and the
\* endpoints of its further services.
Doc(key, endpoint) ==
  [recipientKeys |-> <<key>>, serviceEndpoint |-> endpoint, others |-> <<>>]

\* ------------------------------------------------------------------------
\* Message retriever: the parts that do not depend on the state
\* ------------------------------------------------------------------------

\* Endpoints that start with "ws".
WsEndpoints == { "ws://mediator:3000/ws", "ws://agent:3001/ws" }

\* The mediator's DID document: its http service and a further service
\* reached over a web socket.
MediatorDoc ==
  [ Doc(MediatorKey, MediatorEndpoint) EXCEPT !.others = <<"ws://mediator:3000/ws">> ]

\* _determine_ws_endpoint: the endpoint of the first service that starts
\* with "ws", None (<<>>) when there is none.
determine_ws_endpoint(doc) ==
  LET endpoints == <<doc.serviceEndpoint>> \o doc.others
      ws        == SelectSeq(endpoints, LAMBDA endpoint : endpoint \in WsEndpoints)
  IN  IF ws = <<>> THEN <<>> ELSE <<ws[1]>>

\* The retriever before MessageRetriever(...) is called.  socket is "none"
\* (None), "open" or "closed" (the socket object once it was closed);
\* ws_task and start are the places of the web socket task and of start()
\* (with the poll loop it runs), stop the place of stop(); cancel_requested
\* is ws_task.cancel() not yet delivered; escaped is the exception stop()
\* let out; sessions counts the web socket sessions opened; logged is
\* whether handle_ws has logged an exception ("Failed to handle message").
NoRetriever ==
  [ endpoint |-> <<>>, connection |-> 0, socket |-> "none", ws_task |-> "none",
    cancel_requested |-> FALSE, start |-> "none", stop |-> "none",
    escaped |-> "", sessions |-> 0, logged |-> FALSE ]

\* MessageRetriever.__init__ on a connection with fields r: ValueError
\* without a DID document or without a ws endpoint in it.
MessageRetriever(c, r) ==
  IF r.diddoc = <<>> THEN [error |-> "ValueError", retriever |-> NoRetriever]
  ELSE IF determine_ws_endpoint(r.diddoc[1]) = <<>>
  THEN [error |-> "ValueError", retriever |-> NoRetriever]
  ELSE [ error |-> "",
         retriever |-> [ NoRetriever EXCEPT
                           !.endpoint = determine_ws_endpoint(r.diddoc[1]),
                           !.connection = c ] ]

\* contextlib.suppress(exc) around an await that raised (or not).
suppress(exc, raised) == IF raised = exc THEN "" ELSE raised

\* MessageRetriever.start up to its first await: the ws task is made and
\* start sleeps before it polls.
start(r) == [r EXCEPT !.ws_task = "connecting", !.start = "sleep"]

\* The fault of a ws task that connects again when its session is over.
session_ended_reconnecting(r) == [r EXCEPT !.ws_task = "connecting", !.socket = "none"]

\* MessageRetriever.ws once the session is over, by an error or a close:
\* self.socket = None and the task ends.
session_ended(r) == [r EXCEPT !.ws_task = "done", !.socket = "none"]

\* The fault of a stop that neither cancels nor awaits the ws task.
stop_tasks_without_cancel(r) == [r EXCEPT !.stop = "returned"]

\* MessageRetriever.stop after the socket: poll_task is never assigned, so
\* its branch does not run; ws_task.cancel() does nothing to a task that
\* ended, and the await of it then returns at once, a CancelledError
\* suppressed; a task still running gets the request and stop waits for it.
stop_tasks(r) ==
  IF r.ws_task = "none" THEN [r EXCEPT !.stop = "returned"]
  ELSE IF r.ws_task \in { "done", "cancelled" }
  THEN [ r EXCEPT !.stop = "returned",
                  !.escaped = suppress("CancelledError",
                                       IF r.ws_task = "cancelled"
                                       THEN "CancelledError" ELSE "") ]
  ELSE [r EXCEPT !.cancel_requested = TRUE, !.stop = "awaiting_ws"]

\* MessageRetriever.stop up to its first suspension or its return: a
\* socket is closed first (await self.socket.close()).
stop(r) ==
  IF r.socket # "none" THEN [r EXCEPT !.socket = "closed", !.stop = "closing"]
  ELSE stop_tasks(r)

\* How main ends once the retriever was stopped: as retriever.start() did.
main_end(r) ==
  IF r.stop # "returned" THEN "stopping"
  ELSE IF r.start = "cancelled" THEN "CancelledError"
  ELSE IF r.start = "raised" THEN "SendFailed"
  ELSE "exited"

\* Target(recipients=doc...recipientKeys, endpoint=doc...serviceEndpoint)
target_of(doc) == [recipients |-> doc.recipientKeys, endpoint |-> doc.serviceEndpoint]

\* The packed messages a forward carries: JSON objects as lists of
\* <<key, value>> in the order of their keys.
PackedMessages ==
  { << <<"protected", "p1">>, <<"ciphertext", "c1">> >>,
    << <<"ciphertext", "c2">>, <<"protected", "p2">>, <<"tag", "t2">> >> }

\* forward { to, msg }, and the forwards that lack one of the two fields.
ForwardMsgs ==
  { [Msg("forward") EXCEPT !.to = <<"K_agent">>, !.msg = <<p>>] :
      p \in PackedMessages }
  \cup { [Msg("forward") EXCEPT !.msg = <<p>>] : p \in PackedMessages }
  \cup { [Msg("forward") EXCEPT !.to = <<"K_agent">>] }

\* Routing keys as an upstream mediator writes them: base58 or did:key.
RoutingKeyForms ==
  { bytes_to_b58(<<0, 7>>), verkey_to_didkey(<<200, 255>>) }

RECURSIVE SeqsUpTo(_, _)
SeqsUpTo(S, n) ==
  IF n = 0 THEN { <<>> }
  ELSE LET shorter == SeqsUpTo(S, n - 1)
       IN  shorter \cup { Append(q, x) : q \in shorter, x \in S }

GrantMsgs ==
  { [Msg("mediate-grant") EXCEPT
       !.endpoint = <<MediatorEndpoint>>, !.routing_keys = <<r>>] :
      r \in SeqsUpTo(RoutingKeyForms, MaxRoutingKeys) }
  \cup { [Msg("mediate-grant") EXCEPT
            !.endpoint = <<"ws://mediator:3000/ws">>,
            !.routing_keys = << <<bytes_to_b58(<<0, 7>>)>> >>] }

\* The grants the upstream sends in the running proxy: no routing key, one.
MainGrantMsgs ==
  { [Msg("mediate-grant") EXCEPT
       !.endpoint = <<MediatorEndpoint>>, !.routing_keys = <<r>>] :
      r \in { <<>>, <<bytes_to_b58(<<0, 7>>)>> } }

KeylistEntries ==
  { [recipient_key |-> "K1", action |-> "add"],
    [recipient_key |-> "K2", action |-> "remove"] }

KeylistUpdateMsgs ==
  { [Msg("keylist-update") EXCEPT !.updates = u] :
      u \in SeqsUpTo(KeylistEntries, MaxUpdates) }

\* A connection request with the requester's DID document, and one whose
\* connection block lacks it.
AgentRequest ==
  [Msg("request") EXCEPT !.diddoc = <<Doc(AgentKey, AgentEndpoint)>>]

RequestMsgs == { AgentRequest, Msg("request") }

\* A connection response: its signature verifies or not, and its signer.
ResponseMsgs ==
  { [Msg("response") EXCEPT !.signer = k, !.sig_ok = ok,
                            !.diddoc = <<MediatorDoc>>] :
      k \in { MediatorInvitationKey, StrangerKey }, ok \in BOOLEAN }

\* DIDs as <<method prefix, identifier>>, and what DIDResolver.resolve finds
\* for each: the service of the resolved document, <<>> for a document
\* without a service (DIDKey.resolve makes none).
PeerDid == <<"did:peer:2", "agent">>
MediatorPeerDid == <<"did:peer:4", "mediator">>
KeyDid == <<"did:key:", "z6Mk">>
WebDid == <<"did:web:", "example.com">>

Resolvers == { "did:peer:2", "did:peer:4", "did:key:" }

resolve(did) ==
  IF did[1] \notin Resolvers THEN [error |-> "DIDMethodNotSupported", doc |-> <<>>]
  ELSE IF did = PeerDid THEN [error |-> "", doc |-> <<Doc(AgentKey, AgentEndpoint)>>]
  ELSE IF did = MediatorPeerDid
  THEN [error |-> "", doc |-> <<MediatorDoc>>]
  ELSE [error |-> "", doc |-> <<>>]

\* Endpoints that start with "http".
HttpEndpoints == { MediatorEndpoint, AgentEndpoint, ProxyEndpoint }

\* A DID-exchange request: the DID document attached and signed by the
\* requester's key (the signature verifies or not; the service is reached
\* over http or over a web socket), or a DID to resolve.
DidExchangeRequest ==
  [ Msg("didexchange-request") EXCEPT
      !.diddoc = <<Doc(AgentKey, AgentEndpoint)>>, !.signer = AgentKey ]

DidExchangeRequestMsgs ==
  { [DidExchangeRequest EXCEPT !.sig_ok = ok] : ok \in BOOLEAN }
  \cup { [DidExchangeRequest EXCEPT !.diddoc = <<Doc(AgentKey, "ws://agent:3001/ws")>>] }
  \cup { [Msg("didexchange-request") EXCEPT !.did = <<d>>] :
            d \in { PeerDid, KeyDid, WebDid } }

\* A DID-exchange response: the responder's DID document attached and signed
\* (by the invitation key or another, validly or not), or a DID to resolve.
DidExchangeResponseMsgs ==
  { [Msg("didexchange-response") EXCEPT
       !.diddoc = <<MediatorDoc>>,
       !.signer = k, !.sig_ok = ok] :
      k \in { MediatorInvitationKey, StrangerKey }, ok \in BOOLEAN }
  \cup { [Msg("didexchange-response") EXCEPT !.did = <<MediatorPeerDid>>] }

\* json.dumps of a JSON object with string values, as a list of tokens.
RECURSIVE json_members(_)
json_members(d) ==
  IF d = <<>> THEN <<>>
  ELSE <<d[1][1], ": ", d[1][2]>>
         \o (IF Len(d) > 1 THEN <<", ">> ELSE <<>>)
         \o json_members(Tail(d))

json_dumps(d) == <<"{">> \o json_members(d) \o <<"}">>

\* What the receiver of a POSTed body reads back (json.loads).
RECURSIVE json_pairs(_)
json_pairs(t) ==
  IF Len(t) < 3 THEN <<>>
  ELSE << <<t[1], t[3]>> >>
         \o json_pairs(SubSeq(t, IF Len(t) > 3 THEN 5 ELSE 4, Len(t)))

json_loads(t) == json_pairs(SubSeq(t, 2, Len(t) - 1))

\* The code of the problem report for an error: the class's code attribute.
Code(error) ==
  CASE error = "AgentConnectionNotEstablished" -> "agent-connection-not-established"
    [] error = "MediatorConnectionNotEstablished" -> "mediator-connection-not-established"
    [] error = "ForwardFromUnauthorizedConnection" -> "forward-from-unauthorized-connection"
    [] error = "RequestAlreadyPending" -> "request-already-pending"
    [] error = "UnexpectedMediationGrant" -> "unexpected-mediation-grant"
    [] error = "ExternalMediationNotEstablished" -> "external-mediation-not-established"
    [] OTHER -> error

ForwardErrors ==
  { "AgentConnectionNotEstablished", "MediatorConnectionNotEstablished",
    "ForwardFromUnauthorizedConnection" }

MediationErrors ==
  { "RequestAlreadyPending", "UnexpectedMediationGrant",
    "ExternalMediationNotEstablished" }

\* ------------------------------------------------------------------------
\* Persistence: Connection.to_store / from_store and the Askar session
\* ------------------------------------------------------------------------

\* The signing key and the did of connection c: the key pair is a function
\* of the index, the did is made of the first half of the verkey.
sigkey(c) == <<20 + c>> \o verkey(c)

did_of(key) == bytes_to_b58(SubSeq(key, 1, Len(key) \div 2))

did_sov(c) == did_of(verkey(c))

\* json.dumps of the values to_store writes, as text: a str between quotes,
\* an object between braces, true / false, null; json.loads reads them
\* back.
dumps_str(s) == <<"\"", s, "\"">>

dumps_bool(b) == IF b THEN "true" ELSE "false"

dumps_optional(o) == IF o = <<>> THEN <<"null">> ELSE dumps_str(o[1])

dumps_doc(o) ==
  IF o = <<>> THEN <<"null">>
  ELSE << "{",
          [ recipientKeys |-> [i \in 1..Len(o[1].recipientKeys) |->
                                 dumps_str(o[1].recipientKeys[i])],
            serviceEndpoint |-> dumps_str(o[1].serviceEndpoint),
            others |-> [i \in 1..Len(o[1].others) |-> dumps_str(o[1].others[i])] ],
          "}" >>

loads_str(t) == t[2]

loads_bool(t) == t = "true"

loads_optional(t) == IF Len(t) = 1 THEN <<>> ELSE <<loads_str(t)>>

loads_doc(t) ==
  IF Len(t) = 1 THEN <<>>
  ELSE << [ recipientKeys |-> [i \in 1..Len(t[2].recipientKeys) |->
                                 loads_str(t[2].recipientKeys[i])],
            serviceEndpoint |-> loads_str(t[2].serviceEndpoint),
            others |-> [i \in 1..Len(t[2].others) |-> loads_str(t[2].others[i])] ] >>

\* Connection.to_store of connection c with fields r: the JSON text of the
\* value; "target" is written only when the connection has one (<<>> for a
\* key the object lacks).
to_store(c, r) ==
  [ state |-> dumps_str(r.state),
    multiuse |-> dumps_bool(r.multiuse),
    invitation_key |-> dumps_optional(r.invitation_key),
    did |-> dumps_str(did_sov(c)),
    verkey |-> dumps_str(verkey_b58(c)),
    sigkey |-> dumps_str(bytes_to_b58(sigkey(c))),
    diddoc |-> dumps_doc(r.diddoc),
    target |-> IF r.target = <<>> THEN <<>>
               ELSE << [ recipients |->
                           [i \in 1..Len(r.target[1].recipients) |->
                              dumps_str(bytes_to_b58(r.target[1].recipients[i]))],
                         endpoint |-> dumps_str(r.target[1].endpoint) ] >> ]

\* Entry.value_json: json.loads of a stored value.
value_json(text) ==
  [ state |-> loads_str(text.state),
    multiuse |-> loads_bool(text.multiuse),
    invitation_key |-> loads_optional(text.invitation_key),
    did |-> loads_str(text.did),
    verkey |-> loads_str(text.verkey),
    sigkey |-> loads_str(text.sigkey),
    diddoc |-> loads_doc(text.diddoc),
    target |-> IF text.target = <<>> THEN <<>>
               ELSE << [ recipients |->
                           [i \in 1..Len(text.target[1].recipients) |->
                              loads_str(text.target[1].recipients[i])],
                         endpoint |-> loads_str(text.target[1].endpoint) ] >> ]

\* The fault of a from_store that leaves multiuse as the constructor set it.
from_store_without_multiuse(value) ==
  [ state |-> value.state,
    multiuse |-> FALSE,
    invitation_key |-> value.invitation_key,
    did |-> did_of(b58_to_bytes(value.verkey)),
    verkey |-> b58_to_bytes(value.verkey),
    sigkey |-> b58_to_bytes(value.sigkey),
    diddoc |-> value.diddoc,
    target |-> IF value.target = <<>> THEN <<>>
               ELSE << Target([i \in 1..Len(value.target[1].recipients) |->
                                 b58_to_bytes(value.target[1].recipients[i])],
                              value.target[1].endpoint) >> ]

\* Connection.from_store: from_parts decodes the two keys and the
\* recipients from base 58 and derives the did from the verkey; the other
\* fields are taken from the value.  value.get("target", {}) gives no
\* recipients and no endpoint, and so no target, when the key is absent.
from_store(value) ==
  [ state |-> value.state,
    multiuse |-> value.multiuse,
    invitation_key |-> value.invitation_key,
    did |-> did_of(b58_to_bytes(value.verkey)),
    verkey |-> b58_to_bytes(value.verkey),
    sigkey |-> b58_to_bytes(value.sigkey),
    diddoc |-> value.diddoc,
    target |-> IF value.target = <<>> THEN <<>>
               ELSE << Target([i \in 1..Len(value.target[1].recipients) |->
                                 b58_to_bytes(value.target[1].recipients[i])],
                              value.target[1].endpoint) >> ]

\* The fields of connection c that to_store reads.
Fields(c, r) ==
  [ state |-> r.state,
    multiuse |-> r.multiuse,
    invitation_key |-> r.invitation_key,
    did |-> did_sov(c),
    verkey |-> verkey(c),
    sigkey |-> sigkey(c),
    diddoc |-> r.diddoc,
    target |-> r.target ]

\* The store: the rows of its two categories, each a name and a value, in
\* the order of their insertion.
EmptyStore == [connections |-> <<>>, identifiers |-> <<>>]

Has(rows, name) == \E i \in 1..Len(rows) : rows[i].name = name

\* Session.insert, remove, replace and fetch of aries_askar on the rows of
\* one category: the error code raised ("" for none) and the rows left.
insert(rows, name, value) ==
  IF Has(rows, name) THEN [error |-> "DUPLICATE", rows |-> rows]
  ELSE [error |-> "", rows |-> Append(rows, [name |-> name, value |-> value])]

remove(rows, name) ==
  IF ~Has(rows, name) THEN [error |-> "NOT_FOUND", rows |-> rows]
  ELSE [error |-> "", rows |-> SelectSeq(rows, LAMBDA row : row.name # name)]

replace(rows, name, value) ==
  IF ~Has(rows, name) THEN [error |-> "NOT_FOUND", rows |-> rows]
  ELSE [ error |-> "",
         rows |-> [i \in 1..Len(rows) |->
                     IF rows[i].name = name
                     THEN [name |-> name, value |-> value] ELSE rows[i]] ]

fetch(rows, name) ==
  IF ~Has(rows, name) THEN <<>>
  ELSE << (CHOOSE row \in { rows[i] : i \in 1..Len(rows) } : row.name = name).value >>

\* The fault of a write that lets the DUPLICATE of insert through.
insert_only(rows, name, value) == insert(rows, name, value)

\* try: insert ... except AskarError as err: if err.code == DUPLICATE:
\* remove, insert; else: raise (store_connection and store_agent).
insert_or_remove_insert(rows, name, value) ==
  LET first == insert(rows, name, value)
      gone  == remove(rows, name)
  IN  IF first.error = "" THEN first
      ELSE IF first.error # "DUPLICATE" THEN first
      ELSE IF gone.error # "" THEN gone
      ELSE insert(gone.rows, name, value)

\* The same with session.replace in the handler (store_mediator).
insert_or_replace(rows, name, value) ==
  LET first == insert(rows, name, value)
  IN  IF first.error = "" THEN first
      ELSE IF first.error # "DUPLICATE" THEN first
      ELSE replace(rows, name, value)

IDENTIFIER_AGENT == "agent"

IDENTIFIER_MEDIATOR == "mediator"

\* ------------------------------------------------------------------------
\* State
\* ------------------------------------------------------------------------

VARIABLES
  conn,                       \* every Connection made so far, by index
  connections,                \* the registry: the indices registered
  completed,                  \* the _completed future made by each connection:
                              \*   None, or the connection it was set to
  mediator_connection,        \* Agent.mediator_connection
  agent_connection,           \* Agent.agent_connection
  agent_invitation,           \* Agent.agent_invitation (Optional)
  agent_state,                \* Agent.state
  mediator_connection_event,  \* Agent._mediator_connection_event
  cm,                         \* the CoordinateMediation instance
  args,                       \* the invocation's arguments
  pc,                         \* where each task stands: 0 is main
  external_conn,              \* each task's mediator connection (a local)
  invite_conn,                \* main's invitation connection (a local)
  inflight,                   \* handlers suspended in a send
  invites,                    \* calls of receive_mediator_invite so far
  store,                      \* the Askar store: its rows, by category
  retriever,                  \* the MessageRetriever main makes
  posts,                      \* the last POST to / with what became of it
  last,                       \* the step just taken
  sent                        \* the messages that step sent

agentVars ==
  << mediator_connection, agent_connection, agent_invitation, agent_state,
     mediator_connection_event >>

connVars == << conn, connections, completed >>

\* What only main and the tasks of PostSpec, StoreSpec and RestartSpec touch.
envVars == << args, store, retriever, posts >>

taskVars == << envVars, pc, external_conn, invite_conn, inflight, invites >>

vars == << connVars, agentVars, cm, taskVars, last, sent >>

\* What a step was: a handler's message type or a task's step, the
\* connection it ran on, the message, the exception the handler's body
\* raised ("" for none), whether a send made in the step failed, the
\* exception that left handle_message and what the POST handler made of it.
\* Agent.handle_message: the exception that leaves it when the handler run
\* on connection c raised error or failed in a send ("" when it returns);
\* it has no exception handler of its own.  Steps of main and of the admin
\* route (c = None) do not pass through it.
handle_message(c, error, send_failed) ==
  IF c = None THEN ""
  ELSE IF error # "" THEN error
  ELSE IF send_failed THEN "SendError"
  ELSE ""

\* The fault of a POST handler without its try/except.
handle_uncaught(raised) == [escaped |-> raised, logged |-> FALSE]

\* webserver's handle(request): except Exception: LOGGER.exception(...),
\* then HTTPAccepted; escaped is the exception that leaves the POST handler.
handle(raised) == [escaped |-> "", logged |-> raised # ""]

Obs(kind, c, m, error, send_failed) ==
  [ kind |-> kind, conn |-> c, msg |-> m, error |-> error,
    send_failed |-> send_failed,
    raised |-> handle_message(c, error, send_failed),
    http |-> handle(handle_message(c, error, send_failed)) ]

TaskObs(kind, error) == Obs(kind, None, Msg("none"), error, FALSE)

Crashed ==
  { "RuntimeError", "RequestAlreadyPending", "SendFailed", "ValueError",
    "CancelledError" }

\* The process is up: main has not ended, with an exception or, once
\* retriever.start() returned and the retriever was stopped, without one.
Alive == pc[0] \notin Crashed \cup { "exited" }

\* The web server takes requests: main is past its first check of the
\* mediator connection, which follows the server's start with no suspension.
ServerUp == Alive /\ pc[0] # "start"

\* conn.send_async(msg) of connection record r with index c: the message
\* handed to the transport, packed for r's target.
Packed(c, r, type, body, return_route) ==
  [ via |-> "send_async", conn |-> c, endpoint |-> r.target[1].endpoint,
    recipients |-> r.target[1].recipients, return_route |-> return_route,
    type |-> type, body |-> body ]

\* A connection without a target cannot pack: send_async raises.
CanSend(r) == r.target # <<>>

ProblemReport(c, error) ==
  Packed(c, conn[c], "problem-report", [code |-> Code(error)], FALSE)

\* CoordinateMediation.__init__
CoordinateMediation ==
  [ external_mediator_endpoint |-> <<>>,
    external_mediator_routing_keys |-> <<>>,
    external_pending_request |-> <<>>,
    agent_request_received |-> FALSE ]

\* MediationRequest.__init__
MediationRequest(connection) == [connection |-> connection, event |-> FALSE]

\* The connections a store holds and the two identifiers, as main finds them
\* after load_connections_from_store: a completed connection with a future
\* of its own for each identifier the store holds.
Loaded(c, key, endpoint) ==
  [ Connection(c, <<Target(<<key>>, endpoint)>>) EXCEPT !.state = "complete" ]

\* Store.store_connection, store_agent and store_mediator in a session on
\* the store st; the retrieves.
store_connection(st, c, r) ==
  LET written == insert_or_remove_insert(st.connections, verkey_b58(c), to_store(c, r))
  IN  [error |-> written.error, store |-> [st EXCEPT !.connections = written.rows]]

store_agent(st, key) ==
  LET written == insert_or_remove_insert(st.identifiers, IDENTIFIER_AGENT, key)
  IN  [error |-> written.error, store |-> [st EXCEPT !.identifiers = written.rows]]

store_mediator(st, key) ==
  LET written == insert_or_replace(st.identifiers, IDENTIFIER_MEDIATOR, key)
  IN  [error |-> written.error, store |-> [st EXCEPT !.identifiers = written.rows]]

retrieve_connections(st) == st.connections

retrieve_agent(st) == fetch(st.identifiers, IDENTIFIER_AGENT)

retrieve_mediator(st) == fetch(st.identifiers, IDENTIFIER_MEDIATOR)

\* Agent.save_connections_to_store, in one transaction: every connection
\* of the registry cs with its fields in c, then the verkey of each slot
\* that is set.
RECURSIVE store_connections(_, _, _)
store_connections(st, c, cs) ==
  IF cs = {} THEN st
  ELSE LET first == CHOOSE i \in cs : \A j \in cs : i <= j
       IN  store_connections(store_connection(st, first, c[first]).store,
                             c, cs \ {first})

save_connections_to_store(st, c, cs, mediator, agent) ==
  LET saved == store_connections(st, c, cs)
      a     == IF agent = None THEN saved
               ELSE store_agent(saved, verkey_b58(agent)).store
  IN  IF mediator = None THEN a ELSE store_mediator(a, verkey_b58(mediator)).store

\* Agent.load_connections_from_store: a connection for each entry of the
\* store, with a future of its own, and the two slots set to the
\* connections the identifiers name.  The entries of the stores main starts
\* from are those of connections 1, 2, ... in this order, so that the key
\* of the i-th is verkey(i).
load_connections_from_store(st) ==
  LET entries  == retrieve_connections(st)
      value(i) == from_store(value_json(entries[i].value))
      slot(key) == IF key # <<>> /\ Has(entries, key[1])
                   THEN CHOOSE i \in 1..Len(entries) : entries[i].name = key[1]
                   ELSE None
  IN  [ conn |-> [i \in 1..Len(entries) |->
                    [ Connection(i, value(i).target) EXCEPT
                        !.state = value(i).state,
                        !.multiuse = value(i).multiuse,
                        !.invitation_key = value(i).invitation_key,
                        !.diddoc = value(i).diddoc ]],
        mediator_connection |-> slot(retrieve_mediator(st)),
        agent_connection |-> slot(retrieve_agent(st)) ]

\* The store a run leaves that completed both connections, the mediator's
\* with the DID document doc.
SavedStore(doc) ==
  save_connections_to_store(
    EmptyStore,
    << [Loaded(1, MediatorKey, MediatorEndpoint) EXCEPT !.diddoc = <<doc>>],
       [Loaded(2, AgentKey, AgentEndpoint) EXCEPT
          !.diddoc = <<Doc(AgentKey, AgentEndpoint)>>] >>,
    {1, 2}, 1, 2)

\* The stores main may start from: empty, or what an earlier run saved.
Stores == { EmptyStore, SavedStore(MediatorDoc) }

\* main() with --enable-store, up to the start of the web server: the
\* connections of the store are loaded.
Init ==
  \E st \in Stores, invite \in BOOLEAN :
    LET loaded == load_connections_from_store(st)
    IN  /\ conn = loaded.conn
        /\ connections = 1..Len(loaded.conn)
        /\ completed = [i \in 1..Len(loaded.conn) |-> None]
        /\ mediator_connection = loaded.mediator_connection
        /\ agent_connection = loaded.agent_connection
        /\ agent_invitation = <<>>
        /\ agent_state = "init"
        /\ mediator_connection_event = FALSE
        /\ cm = CoordinateMediation
        /\ args = [mediator_invite |-> invite, enable_store |-> TRUE]
        /\ store = st
        /\ retriever = NoRetriever
        /\ posts = <<>>
        /\ pc = [t \in {0} |-> "start"]
        /\ external_conn = [t \in {0} |-> None]
        /\ invite_conn = None
        /\ inflight = {}
        /\ invites = 0
        /\ last = TaskObs("init", "")
        /\ sent = <<>>

\* ------------------------------------------------------------------------
\* Connections module: making connections, invitations
\* ------------------------------------------------------------------------

\* Connections.new_connection registers the new connection under its key.
Register(rec) ==
  /\ conn' = Append(conn, rec)
  /\ completed' = Append(completed, None)

\* Connection.complete(): set_result on the shared future; a future that is
\* done raises InvalidStateError.
CanComplete(r) == completed[r.fut] = None

\* Connections.receive_invite, up to the await of the request's send: a
\* connection of its own for the inviter, moved to request_sent.
receive_invite(task) ==
  LET n     == Len(conn) + 1
      fresh == [ Connection(n, <<Target(<<MediatorInvitationKey>>, MediatorEndpoint)>>)
                   EXCEPT !.invitation_key = <<bytes_to_b58(MediatorInvitationKey)>> ]
      s1    == ConnectionMachine(fresh.state, "receive_invite").state
      s2    == ConnectionMachine(s1, "send_request").state
      rec   == [fresh EXCEPT !.state = s2]
  IN  /\ Register(rec)
      /\ connections' = connections \cup {n}
      /\ sent' = << Packed(n, rec, "request", [did |-> verkey_b58(n)], TRUE) >>
      /\ inflight' = inflight \cup
           { [op |-> "receive_mediator_invite", conn |-> n, task |-> task] }
      /\ invites' = invites + 1

\* Agent.receive_mediator_invite, after the await: the slot and the event.
receive_mediator_invite_done(e) ==
  /\ e \in inflight
  /\ e.op = "receive_mediator_invite"
  /\ inflight' = inflight \ {e}
  /\ mediator_connection' = e.conn
  /\ mediator_connection_event' = TRUE
  /\ IF e.task = 0
     THEN /\ pc' = [pc EXCEPT ![0] = "await_completion"]
          /\ external_conn' = [external_conn EXCEPT ![0] = e.conn]
     ELSE UNCHANGED << pc, external_conn >>
  /\ last' = TaskObs("receive_mediator_invite_done", "")
  /\ sent' = <<>>
  /\ UNCHANGED << connVars, agent_connection, agent_invitation, agent_state,
                  cm, envVars, invite_conn, invites >>

\* POST /receive_mediator_invitation: the admin route calls
\* Agent.receive_mediator_invite.
admin_receive_mediator_invitation ==
  /\ invites < MaxInvites
  /\ ServerUp
  /\ receive_invite(-1)
  /\ last' = TaskObs("admin_receive_mediator_invitation", "")
  /\ UNCHANGED << agentVars, cm, envVars, pc, external_conn, invite_conn >>

\* OobDidExchange.receive_invite, up to the await of the request's send:
\* the invitation key is kept as the did:key of the invitation.
oob_receive_invite(task) ==
  LET n     == Len(conn) + 1
      key   == verkey_to_didkey(MediatorInvitationKey)
      fresh == [ Connection(n, <<Target(<<didkey_to_verkey(key).verkey>>, MediatorEndpoint)>>)
                   EXCEPT !.invitation_key = <<key>> ]
      s1    == ConnectionMachine(fresh.state, "receive_invite").state
      s2    == ConnectionMachine(s1, "send_request").state
      rec   == [fresh EXCEPT !.state = s2]
  IN  /\ Register(rec)
      /\ connections' = connections \cup {n}
      /\ sent' = << Packed(n, rec, "didexchange-request", [did |-> verkey_b58(n)], TRUE) >>
      /\ inflight' = inflight \cup
           { [op |-> "receive_mediator_invite", conn |-> n, task |-> task] }
      /\ invites' = invites + 1

\* The invitation handler main gives the agent: the legacy or the OOB
\* receive_invite_url, by the form of the invitation.
handle_oob_and_connections_invites(oob) ==
  /\ invites < MaxInvites
  /\ ServerUp
  /\ IF oob THEN oob_receive_invite(-1) ELSE receive_invite(-1)
  /\ last' = TaskObs("handle_oob_and_connections_invites", "")
  /\ UNCHANGED << agentVars, cm, envVars, pc, external_conn, invite_conn >>

\* The invitation connections: those made by create_invitation.
Invitations == { c \in 1..Len(conn) : conn[c].invitation_key = <<>> }

\* Connections.create_invitation(multiuse=...): an invitation connection,
\* invite_sent.
connections_create_invitation(multiuse) ==
  LET n   == Len(conn) + 1
      rec == [ Connection(n, <<>>) EXCEPT
                 !.multiuse = multiuse,
                 !.state = ConnectionMachine("null", "send_invite").state ]
  IN  /\ Cardinality(Invitations) < MaxInvitations
      /\ Register(rec)
      /\ connections' = connections \cup {n}
      /\ last' = TaskObs("create_invitation", "")
      /\ sent' = <<>>
      /\ UNCHANGED << agentVars, cm, taskVars >>

\* OobDidExchange.create_invitation: an invitation connection, invite_sent.
create_invitation ==
  LET n   == Len(conn) + 1
      rec == [ Connection(n, <<>>) EXCEPT
                 !.state = ConnectionMachine("null", "send_invite").state ]
  IN  /\ Register(rec)
      /\ connections' = connections \cup {n}
      /\ invite_conn' = n
      /\ agent_invitation' = <<verkey_to_didkey(verkey(n))>>

\* ------------------------------------------------------------------------
\* main()
\* ------------------------------------------------------------------------

main_start ==
  /\ pc[0] = "start"
  /\ IF mediator_connection # None
     THEN /\ pc' = [pc EXCEPT ![0] = "agent_check"]
          /\ UNCHANGED << agentVars, connVars, inflight, invites >>
          /\ sent' = <<>>
     ELSE /\ agent_state' = "setup"
          /\ UNCHANGED << mediator_connection, agent_connection,
                          agent_invitation, mediator_connection_event >>
          /\ IF args.mediator_invite
             THEN /\ receive_invite(0)
                  /\ pc' = [pc EXCEPT ![0] = "receive_mediator_invite"]
             ELSE /\ pc' = [pc EXCEPT ![0] = "await_invite"]
                  /\ sent' = <<>>
                  /\ UNCHANGED << connVars, inflight, invites >>
  /\ last' = TaskObs("main_start", "")
  /\ UNCHANGED << cm, envVars, external_conn, invite_conn >>

\* await agent.mediator_invite_received()
main_invite_received ==
  /\ pc[0] = "await_invite"
  /\ mediator_connection_event
  /\ IF mediator_connection = None
     THEN /\ pc' = [pc EXCEPT ![0] = "RuntimeError"]
          /\ UNCHANGED external_conn
     ELSE /\ pc' = [pc EXCEPT ![0] = "await_completion"]
          /\ external_conn' = [external_conn EXCEPT ![0] = mediator_connection]
  /\ last' = TaskObs("main_invite_received", "")
  /\ sent' = <<>>
  /\ UNCHANGED << connVars, agentVars, cm, envVars, invite_conn, inflight, invites >>

\* await mediator_connection.completion()
main_mediator_completed ==
  /\ pc[0] = "await_completion"
  /\ completed[conn[external_conn[0]].fut] # None
  /\ pc' = [pc EXCEPT ![0] = "request_mediation"]
  /\ last' = TaskObs("main_mediator_completed", "")
  /\ sent' = <<>>
  /\ UNCHANGED << connVars, agentVars, cm, envVars, external_conn, invite_conn,
                  inflight, invites >>

\* ------------------------------------------------------------------------
\* Coordinate mediation, upstream side
\* ------------------------------------------------------------------------

\* The fault of taking a request that was made for one that was granted.
is_made(request) == request # <<>>

\* The event of the pending request is set.
is_complete(request) == request[1].event

\* The fault of request_mediation_from_external without its check of a
\* pending request.
request_mediation_unchecked(t) ==
  /\ pc[t] = "request_mediation"
  /\ Alive
  /\ cm' = [cm EXCEPT !.external_pending_request =
                        <<MediationRequest(external_conn[t])>>]
  /\ pc' = [pc EXCEPT ![t] = "send_mediate_request"]
  /\ sent' = << Packed(external_conn[t], conn[external_conn[t]],
                       "mediate-request", <<>>, TRUE) >>
  /\ last' = Obs("request_mediation_from_external",
                 external_conn[t], Msg("none"), "", FALSE)
  /\ UNCHANGED << connVars, agentVars, envVars, external_conn, invite_conn,
                  inflight, invites >>

\* The fault of a check that lets a new request through once the pending one
\* has been granted.
request_mediation_after_grant(t) ==
  /\ pc[t] = "request_mediation"
  /\ Alive
  /\ IF cm.external_pending_request # <<>> /\ ~cm.external_pending_request[1].event
     THEN /\ pc' = [pc EXCEPT ![t] = "RequestAlreadyPending"]
          /\ last' = Obs("request_mediation_from_external", external_conn[t],
                         Msg("none"), "RequestAlreadyPending", FALSE)
          /\ sent' = <<>>
          /\ UNCHANGED cm
     ELSE /\ cm' = [cm EXCEPT !.external_pending_request =
                                <<MediationRequest(external_conn[t])>>]
          /\ IF CanSend(conn[external_conn[t]])
             THEN /\ pc' = [pc EXCEPT ![t] = "send_mediate_request"]
                  /\ sent' = << Packed(external_conn[t], conn[external_conn[t]],
                                       "mediate-request", <<>>, TRUE) >>
                  /\ last' = Obs("request_mediation_from_external",
                                 external_conn[t], Msg("none"), "", FALSE)
             ELSE /\ pc' = [pc EXCEPT ![t] = "SendFailed"]
                  /\ sent' = <<>>
                  /\ last' = Obs("request_mediation_from_external",
                                 external_conn[t], Msg("none"), "", TRUE)
  /\ UNCHANGED << connVars, agentVars, envVars, external_conn, invite_conn,
                  inflight, invites >>

\* request_mediation_from_external, up to the await of the send: the check
\* and the assignment run without a suspension between them.
request_mediation_from_external(t) ==
  /\ pc[t] = "request_mediation"
  /\ Alive
  /\ IF cm.external_pending_request # <<>>
     THEN /\ pc' = [pc EXCEPT ![t] = "RequestAlreadyPending"]
          /\ last' = Obs("request_mediation_from_external", external_conn[t],
                         Msg("none"), "RequestAlreadyPending", FALSE)
          /\ sent' = <<>>
          /\ UNCHANGED cm
     ELSE /\ cm' = [cm EXCEPT !.external_pending_request =
                                <<MediationRequest(external_conn[t])>>]
          /\ IF CanSend(conn[external_conn[t]])
             THEN /\ pc' = [pc EXCEPT ![t] = "send_mediate_request"]
                  /\ sent' = << Packed(external_conn[t], conn[external_conn[t]],
                                       "mediate-request", <<>>, TRUE) >>
                  /\ last' = Obs("request_mediation_from_external",
                                 external_conn[t], Msg("none"), "", FALSE)
             ELSE /\ pc' = [pc EXCEPT ![t] = "SendFailed"]
                  /\ sent' = <<>>
                  /\ last' = Obs("request_mediation_from_external",
                                 external_conn[t], Msg("none"), "", TRUE)
  /\ UNCHANGED << connVars, agentVars, envVars, external_conn, invite_conn,
                  inflight, invites >>

\* The send's await ends; the caller goes on to await the event, and
\* Event.wait() returns at once, with no suspension, when the event is set.
mediate_request_sent(t) ==
  /\ pc[t] = "send_mediate_request"
  /\ Alive
  /\ pc' = [pc EXCEPT ![t] = IF is_complete(cm.external_pending_request)
                             THEN "returned" ELSE "await_grant"]
  /\ last' = Obs("mediate_request_sent", external_conn[t], Msg("none"), "", FALSE)
  /\ sent' = <<>>
  /\ UNCHANGED << connVars, agentVars, cm, envVars, external_conn, invite_conn,
                  inflight, invites >>

\* await self.external_pending_request.completed() ends once the event of
\* the request the module holds is set; the call returns.
request_mediation_returned(t) ==
  /\ pc[t] = "await_grant"
  /\ Alive
  /\ is_complete(cm.external_pending_request)
  /\ pc' = [pc EXCEPT ![t] = "returned"]
  /\ last' = Obs("request_mediation_returned", external_conn[t], Msg("none"), "", FALSE)
  /\ sent' = <<>>
  /\ UNCHANGED << connVars, agentVars, cm, envVars, external_conn, invite_conn,
                  inflight, invites >>

\* The fault of a send_keylist_update that sends the update and does not
\* wait for the response.
send_keylist_update_without_await(t) ==
  /\ pc[t] = "returned"
  /\ Alive
  /\ pc' = [pc EXCEPT ![t] = IF t = 0 THEN "agent_check" ELSE "done"]
  /\ sent' = IF CanSend(conn[external_conn[t]])
             THEN << Packed(external_conn[t], conn[external_conn[t]],
                            "keylist-update",
                            << [ recipient_key |-> verkey_b58(external_conn[t]),
                                 action |-> "add" ] >>, TRUE) >>
             ELSE <<>>
  /\ last' = Obs("send_keylist_update", external_conn[t], Msg("none"), "", FALSE)
  /\ UNCHANGED << connVars, agentVars, cm, envVars, external_conn, invite_conn,
                  inflight, invites >>

\* send_keylist_update(external_conn, "add", its verkey_b58), which follows
\* the return of request_mediation_from_external, up to the await of the
\* returned keylist-update-response.
send_keylist_update(t) ==
  /\ pc[t] = "returned"
  /\ Alive
  /\ IF CanSend(conn[external_conn[t]])
     THEN /\ pc' = [pc EXCEPT ![t] = "await_keylist_update_response"]
          /\ sent' = << Packed(external_conn[t], conn[external_conn[t]],
                               "keylist-update",
                               << [ recipient_key |-> verkey_b58(external_conn[t]),
                                    action |-> "add" ] >>, TRUE) >>
          /\ last' = Obs("send_keylist_update", external_conn[t], Msg("none"), "", FALSE)
     ELSE /\ pc' = [pc EXCEPT ![t] = "SendFailed"]
          /\ sent' = <<>>
          /\ last' = Obs("send_keylist_update", external_conn[t], Msg("none"), "", TRUE)
  /\ UNCHANGED << connVars, agentVars, cm, envVars, external_conn, invite_conn,
                  inflight, invites >>

\* ------------------------------------------------------------------------
\* main(), the downstream side
\* ------------------------------------------------------------------------

\* The fault of a main that makes an invitation for the agent whether or not
\* the agent's connection was loaded.
main_agent_check_inviting ==
  /\ pc[0] = "agent_check"
  /\ agent_state' = "setup"
  /\ create_invitation
  /\ pc' = [pc EXCEPT ![0] = "await_agent_completion"]
  /\ UNCHANGED << mediator_connection, agent_connection,
                  mediator_connection_event >>
  /\ last' = TaskObs("main_agent_check", "")
  /\ sent' = <<>>
  /\ UNCHANGED << cm, envVars, external_conn, inflight, invites >>

\* if agent.agent_connection: ... else: create the invitation and await.
main_agent_check ==
  /\ pc[0] = "agent_check"
  /\ IF agent_connection # None
     THEN /\ pc' = [pc EXCEPT ![0] = "final_checks"]
          /\ UNCHANGED << connVars, agentVars, invite_conn >>
     ELSE /\ agent_state' = "setup"
          /\ create_invitation
          /\ pc' = [pc EXCEPT ![0] = "await_agent_completion"]
          /\ UNCHANGED << mediator_connection, agent_connection,
                          mediator_connection_event >>
  /\ last' = TaskObs("main_agent_check", "")
  /\ sent' = <<>>
  /\ UNCHANGED << cm, envVars, external_conn, inflight, invites >>

\* agent_connection = await agent_connection.completion(): the future's
\* result becomes the agent connection; then sleep(3).
main_agent_completed ==
  /\ pc[0] = "await_agent_completion"
  /\ completed[conn[invite_conn].fut] # None
  /\ agent_connection' = completed[conn[invite_conn].fut]
  /\ pc' = [pc EXCEPT ![0] = "final_checks"]
  /\ last' = TaskObs("main_agent_completed", "")
  /\ sent' = <<>>
  /\ UNCHANGED << connVars, mediator_connection, agent_invitation, agent_state,
                  mediator_connection_event, cm, envVars, external_conn,
                  invite_conn, inflight, invites >>

\* retriever = MessageRetriever(agent.mediator_connection, ...), with its
\* ValueError, then agent.state = "ready" and retriever.start() up to its
\* first await.
start_retriever ==
  LET made == MessageRetriever(mediator_connection, conn[mediator_connection])
  IN  IF made.error # ""
      THEN /\ pc' = [pc EXCEPT ![0] = made.error]
           /\ UNCHANGED << agent_state, retriever >>
      ELSE /\ pc' = [pc EXCEPT ![0] = "ready"]
           /\ agent_state' = "ready"
           /\ retriever' = start(made.retriever)

\* The error main's last stretch ends with.
ready_error ==
  IF mediator_connection = None \/ agent_connection = None THEN "RuntimeError"
  ELSE MessageRetriever(mediator_connection, conn[mediator_connection]).error

\* The checks of the two slots; with a store main goes on to save the
\* connections, without one to the retriever.
main_ready ==
  /\ pc[0] = "final_checks"
  /\ IF mediator_connection = None \/ agent_connection = None
     THEN /\ pc' = [pc EXCEPT ![0] = "RuntimeError"]
          /\ UNCHANGED << agent_state, retriever >>
     ELSE IF args.enable_store
     THEN /\ pc' = [pc EXCEPT ![0] = "save_connections"]
          /\ UNCHANGED << agent_state, retriever >>
     ELSE start_retriever
  /\ last' = TaskObs("main_ready", IF args.enable_store /\ ready_error # "RuntimeError"
                                   THEN "" ELSE ready_error)
  /\ sent' = <<>>
  /\ UNCHANGED << connVars, mediator_connection, agent_connection,
                  agent_invitation, mediator_connection_event, cm, args, store,
                  posts, external_conn, invite_conn, inflight, invites >>

\* await agent.save_connections_to_store(store), then the retriever.
main_saved ==
  /\ pc[0] = "save_connections"
  /\ store' = save_connections_to_store(store, conn, connections,
                                        mediator_connection, agent_connection)
  /\ start_retriever
  /\ last' = TaskObs("main_saved", ready_error)
  /\ sent' = <<>>
  /\ UNCHANGED << connVars, mediator_connection, agent_connection,
                  agent_invitation, mediator_connection_event, cm, args,
                  posts, external_conn, invite_conn, inflight, invites >>

\* ------------------------------------------------------------------------
\* Inbound messages: a message unpacked by a registered connection is
\* dispatched to the handler of its type
\* ------------------------------------------------------------------------

Dispatched(c) == c \in connections /\ ServerUp

\* problem_reporter(exceptions=...): the report sent on the connection when
\* the handler raised one of the exceptions; the exception is raised again.
problem_reporter(c, error, exceptions) ==
  IF error \in exceptions /\ CanSend(conn[c]) THEN << ProblemReport(c, error) >>
  ELSE <<>>

ReportFailed(c, error, exceptions) == error \in exceptions /\ ~CanSend(conn[c])

\* The fault of a forward handler that does not look at the connection the
\* forward came from.
forward_error_any_connection(c, m) ==
  IF m.to = <<>> \/ m.msg = <<>> THEN "ValidationError"
  ELSE IF agent_connection = None THEN "AgentConnectionNotEstablished"
  ELSE IF mediator_connection = None THEN "MediatorConnectionNotEstablished"
  ELSE IF conn[agent_connection].target = <<>> THEN "AssertionError"
  ELSE IF conn[agent_connection].target[1].endpoint = "" THEN "AssertionError"
  ELSE ""

\* The exception Routing.forward raises on message m from connection c, ""
\* when it goes on to send.
forward_error(c, m) ==
  IF m.to = <<>> \/ m.msg = <<>> THEN "ValidationError"
  ELSE IF agent_connection = None THEN "AgentConnectionNotEstablished"
  ELSE IF mediator_connection = None THEN "MediatorConnectionNotEstablished"
  ELSE IF c # mediator_connection THEN "ForwardFromUnauthorizedConnection"
  ELSE IF conn[agent_connection].target = <<>> THEN "AssertionError"
  ELSE IF conn[agent_connection].target[1].endpoint = "" THEN "AssertionError"
  ELSE ""

\* Routing.forward: agent_connection._send(json.dumps(fwd.msg).encode(),
\* endpoint), with no packing.
forward(c, m) ==
  /\ Dispatched(c)
  /\ last' = Obs("forward", c, m, forward_error(c, m), FALSE)
  /\ sent' = IF forward_error(c, m) # "" THEN <<>>
             ELSE << [ via |-> "_send", conn |-> agent_connection,
                       endpoint |-> conn[agent_connection].target[1].endpoint,
                       recipients |-> <<>>, return_route |-> FALSE,
                       type |-> "raw", body |-> json_dumps(m.msg[1]) ] >>
  /\ UNCHANGED << connVars, agentVars, cm, taskVars >>

\* The fault of taking upstream mediation as granted once it was requested.
Requested == cm.external_pending_request # <<>>

\* Upstream mediation is granted: a request was made and its event is set.
Granted ==
  /\ cm.external_pending_request # <<>>
  /\ is_complete(cm.external_pending_request)

mediate_request_error ==
  IF ~Granted THEN "ExternalMediationNotEstablished"
  ELSE IF cm.external_mediator_routing_keys \in { <<>>, << <<>> >> }
  THEN "AssertionError"
  ELSE IF mediator_connection = None THEN "AssertionError"
  ELSE ""

\* The routing_keys of the grant sent downstream.
grant_routing_keys ==
  LET keys == cm.external_mediator_routing_keys[1]
  IN  << verkey_to_didkey(verkey(mediator_connection)) >>
        \o [ i \in 1..Len(keys) |->
               IF ~startswith(keys[i], DidKeyPrefix)
               THEN verkey_b58_to_didkey(keys[i]) ELSE keys[i] ]

\* CoordinateMediation.mediate_request
mediate_request(c, m) ==
  /\ Dispatched(c)
  /\ IF mediate_request_error # ""
     THEN /\ last' = Obs("mediate-request", c, m, mediate_request_error,
                         ReportFailed(c, mediate_request_error, MediationErrors))
          /\ sent' = problem_reporter(c, mediate_request_error, MediationErrors)
          /\ UNCHANGED cm
     ELSE /\ cm' = [cm EXCEPT !.agent_request_received = TRUE]
          /\ last' = Obs("mediate-request", c, m, "", ~CanSend(conn[c]))
          /\ sent' = IF ~CanSend(conn[c]) THEN <<>>
                     ELSE << Packed(c, conn[c], "mediate-grant",
                               [ endpoint |-> cm.external_mediator_endpoint,
                                 routing_keys |-> grant_routing_keys ], FALSE) >>
  /\ UNCHANGED << connVars, agentVars, taskVars >>

mediate_grant_error ==
  IF cm.external_pending_request = <<>> THEN "UnexpectedMediationGrant" ELSE ""

\* The fault of a grant handler that stores the grant before its check.
mediate_grant_stores_first(c, m) ==
  /\ Dispatched(c)
  /\ last' = Obs("mediate-grant", c, m, mediate_grant_error,
                 ReportFailed(c, mediate_grant_error, MediationErrors))
  /\ sent' = problem_reporter(c, mediate_grant_error, MediationErrors)
  /\ IF mediate_grant_error # ""
     THEN cm' = [ cm EXCEPT
                    !.external_mediator_endpoint = m.endpoint,
                    !.external_mediator_routing_keys = m.routing_keys ]
     ELSE cm' = [ cm EXCEPT
                    !.external_mediator_endpoint = m.endpoint,
                    !.external_mediator_routing_keys = m.routing_keys,
                    !.external_pending_request =
                       << [ cm.external_pending_request[1] EXCEPT !.event = TRUE ] >> ]
  /\ UNCHANGED << connVars, agentVars, taskVars >>

\* CoordinateMediation.mediate_grant
mediate_grant(c, m) ==
  /\ Dispatched(c)
  /\ last' = Obs("mediate-grant", c, m, mediate_grant_error,
                 ReportFailed(c, mediate_grant_error, MediationErrors))
  /\ sent' = problem_reporter(c, mediate_grant_error, MediationErrors)
  /\ IF mediate_grant_error # ""
     THEN UNCHANGED cm
     ELSE cm' = [ cm EXCEPT
                    !.external_mediator_endpoint = m.endpoint,
                    !.external_mediator_routing_keys = m.routing_keys,
                    !.external_pending_request =
                       << [ cm.external_pending_request[1] EXCEPT !.event = TRUE ] >> ]
  /\ UNCHANGED << connVars, agentVars, taskVars >>

\* The fault of an updated list built back to front.
keylist_updated_reversed(updates) ==
  [ i \in 1..Len(updates) |->
      [ recipient_key |-> updates[Len(updates) + 1 - i].recipient_key,
        action |-> updates[Len(updates) + 1 - i].action, result |-> "success" ] ]

\* The updated list of the keylist-update-response.
keylist_updated(updates) ==
  [ i \in 1..Len(updates) |->
      [ recipient_key |-> updates[i].recipient_key,
        action |-> updates[i].action, result |-> "success" ] ]

\* A keylist_update handler that also passes the updates on to the
\* upstream mediator.
keylist_update_propagating(c, m) ==
  /\ Dispatched(c)
  /\ last' = Obs("keylist-update", c, m, "", ~CanSend(conn[c]))
  /\ sent' = (IF ~CanSend(conn[c]) THEN <<>>
              ELSE << Packed(c, conn[c], "keylist-update-response",
                             keylist_updated(m.updates), FALSE) >>)
             \o (IF mediator_connection = None THEN <<>>
                 ELSE IF ~CanSend(conn[mediator_connection]) THEN <<>>
                 ELSE << Packed(mediator_connection, conn[mediator_connection],
                                "keylist-update", m.updates, TRUE) >>)
  /\ UNCHANGED << connVars, agentVars, cm, taskVars >>

\* CoordinateMediation.keylist_update
keylist_update(c, m) ==
  /\ Dispatched(c)
  /\ last' = Obs("keylist-update", c, m, "", ~CanSend(conn[c]))
  /\ sent' = IF ~CanSend(conn[c]) THEN <<>>
             ELSE << Packed(c, conn[c], "keylist-update-response",
                            keylist_updated(m.updates), FALSE) >>
  /\ UNCHANGED << connVars, agentVars, cm, taskVars >>

\* A keylist-update-response: returned to the send_keylist_update that
\* awaits one on this connection (main goes on to its check of the agent
\* connection), and logged by the handler otherwise.
keylist_update_response(c, m) ==
  /\ Dispatched(c)
  /\ pc' = [ t \in DOMAIN pc |->
              IF pc[t] = "await_keylist_update_response" /\ external_conn[t] = c
              THEN IF t = 0 THEN "agent_check" ELSE "done"
              ELSE pc[t] ]
  /\ last' = Obs("keylist-update-response", c, m, "", FALSE)
  /\ sent' = <<>>
  /\ UNCHANGED << connVars, agentVars, cm, envVars, external_conn, invite_conn,
                  inflight, invites >>

\* ------------------------------------------------------------------------
\* Connections protocol handlers (RFC 0160) and trust ping
\* ------------------------------------------------------------------------

\* Connections.request, up to the await of the response's send: the
\* invitation is popped, then moved to request_received; the relationship
\* connection takes its state and future, the target and the DID document
\* of the request (a KeyError when the request has none), and moves to
\* response_sent.
request(c, m) ==
  LET popped == IF ~conn[c].multiuse THEN connections \ {c} ELSE connections
      mc     == ConnectionMachine(conn[c].state, "receive_request")
      n      == Len(conn) + 1
      invite == [conn[c] EXCEPT !.state = mc.state]
      made   == [ from_invite(c, invite, n, <<target_of(m.diddoc[1])>>)
                    EXCEPT !.diddoc = m.diddoc ]
      rec    == [made EXCEPT !.state = ConnectionMachine(made.state, "send_response").state]
  IN  /\ Dispatched(c)
      /\ IF mc.error # ""
         THEN /\ connections' = popped
              /\ UNCHANGED << conn, completed, inflight >>
              /\ last' = Obs("request", c, m, mc.error, FALSE)
              /\ sent' = <<>>
         ELSE IF m.diddoc = <<>>
         THEN /\ connections' = popped
              /\ conn' = [conn EXCEPT ![c] = invite]
              /\ UNCHANGED << completed, inflight >>
              /\ last' = Obs("request", c, m, "KeyError", FALSE)
              /\ sent' = <<>>
         ELSE /\ conn' = Append([conn EXCEPT ![c] = invite], rec)
              /\ completed' = Append(completed, None)
              /\ connections' = popped \cup {n}
              /\ inflight' = inflight \cup { [op |-> "request", conn |-> n, task |-> -1] }
              /\ last' = Obs("request", c, m, "", FALSE)
              /\ sent' = << Packed(n, rec, "response",
                                   [signer |-> verkey(c), did |-> verkey_b58(n)], FALSE) >>
      /\ UNCHANGED << agentVars, cm, envVars, pc, external_conn, invite_conn, invites >>

\* Connections.request, after the await: connection.complete().
request_done(e) ==
  /\ e \in inflight
  /\ e.op = "request"
  /\ Alive
  /\ inflight' = inflight \ {e}
  /\ IF CanComplete(conn[e.conn])
     THEN /\ completed' = [completed EXCEPT ![conn[e.conn].fut] = e.conn]
          /\ last' = Obs("request_done", e.conn, Msg("none"), "", FALSE)
     ELSE /\ UNCHANGED completed
          /\ last' = Obs("request_done", e.conn, Msg("none"), "InvalidStateError", FALSE)
  /\ sent' = <<>>
  /\ UNCHANGED << conn, connections, agentVars, cm, envVars, pc, external_conn,
                  invite_conn, invites >>

\* The fault of a response handler that verifies the signature and does
\* not compare the signer with the invitation key.
response_error_any_signer(c, m) ==
  IF ~m.sig_ok THEN "SignatureInvalid"
  ELSE IF conn[c].target = <<>> THEN "AssertionError"
  ELSE IF ~CanComplete(conn[c]) THEN "InvalidStateError"
  ELSE ""

\* The exception Connections.response raises once the machine has taken
\* receive_response.
response_error(c, m) ==
  IF ~m.sig_ok THEN "SignatureInvalid"
  ELSE IF <<bytes_to_b58(m.signer)>> # conn[c].invitation_key THEN "ProtocolError"
  ELSE IF conn[c].target = <<>> THEN "AssertionError"
  ELSE IF ~CanComplete(conn[c]) THEN "InvalidStateError"
  ELSE ""

\* Connections.response
response(c, m) ==
  LET mc == ConnectionMachine(conn[c].state, "receive_response")
      up == [ conn[c] EXCEPT
                !.target = <<target_of(m.diddoc[1])>>,
                !.diddoc = m.diddoc,
                !.state = ConnectionMachine(mc.state, "send_ping").state ]
  IN  /\ Dispatched(c)
      /\ IF mc.error # ""
         THEN /\ UNCHANGED << conn, completed >>
              /\ last' = Obs("response", c, m, mc.error, FALSE)
              /\ sent' = <<>>
         ELSE IF response_error(c, m) # ""
         THEN /\ conn' = [conn EXCEPT ![c].state = mc.state]
              /\ UNCHANGED completed
              /\ last' = Obs("response", c, m, response_error(c, m), FALSE)
              /\ sent' = <<>>
         ELSE /\ conn' = [conn EXCEPT ![c] = up]
              /\ completed' = [completed EXCEPT ![conn[c].fut] = c]
              /\ last' = Obs("response", c, m, "", FALSE)
              /\ sent' = << Packed(c, up, "ping", <<>>, TRUE) >>
      /\ UNCHANGED << connections, agentVars, cm, taskVars >>

\* The fault of a ping handler that answers without moving the machine.
ping_without_transition(c, m) ==
  LET mc == ConnectionMachine(conn[c].state, "receive_ping")
  IN  /\ Dispatched(c)
      /\ UNCHANGED conn
      /\ IF mc.error # ""
         THEN /\ last' = Obs("ping", c, m, mc.error, FALSE)
              /\ sent' = <<>>
         ELSE /\ last' = Obs("ping", c, m, "", ~CanSend(conn[c]))
              /\ sent' = IF ~CanSend(conn[c]) THEN <<>>
                         ELSE << Packed(c, conn[c], "ping_response", <<>>, FALSE) >>
      /\ UNCHANGED << connections, completed, agentVars, cm, taskVars >>

\* Connections.ping
ping(c, m) ==
  LET mc == ConnectionMachine(conn[c].state, "receive_ping")
      rs == ConnectionMachine(mc.state, "send_ping_response")
  IN  /\ Dispatched(c)
      /\ IF mc.error # ""
         THEN /\ UNCHANGED conn
              /\ last' = Obs("ping", c, m, mc.error, FALSE)
              /\ sent' = <<>>
         ELSE /\ conn' = [conn EXCEPT ![c].state = rs.state]
              /\ last' = Obs("ping", c, m, "", ~CanSend(conn[c]))
              /\ sent' = IF ~CanSend(conn[c]) THEN <<>>
                         ELSE << Packed(c, conn[c], "ping_response", <<>>, FALSE) >>
      /\ UNCHANGED << connections, completed, agentVars, cm, taskVars >>

\* Connections.ping_response
ping_response(c, m) ==
  LET mc == ConnectionMachine(conn[c].state, "receive_ping_response")
  IN  /\ Dispatched(c)
      /\ conn' = [conn EXCEPT ![c].state = mc.state]
      /\ last' = Obs("ping_response", c, m, mc.error, FALSE)
      /\ sent' = <<>>
      /\ UNCHANGED << connections, completed, agentVars, cm, taskVars >>

\* ------------------------------------------------------------------------
\* Out-of-band and DID exchange handlers
\* ------------------------------------------------------------------------

\* The fault of taking the attached document without the check of its
\* signature.
doc_unverified(m) ==
  IF m.diddoc # <<>>
  THEN [error |-> "", doc |-> m.diddoc, signer |-> <<m.signer>>]
  ELSE IF m.did = <<>> THEN [error |-> "KeyError", doc |-> <<>>, signer |-> <<>>]
  ELSE [error |-> resolve(m.did[1]).error, doc |-> resolve(m.did[1]).doc,
        signer |-> <<>>]

\* OobDidExchange.doc_from_request_or_response: the document and the signer
\* of the attachment, or the resolved document and no signer.  The awaits
\* of the resolver do not suspend: it makes no call that waits.
doc_from_request_or_response(m) ==
  IF m.diddoc # <<>>
  THEN IF ~m.sig_ok THEN [error |-> "ProtocolError", doc |-> <<>>, signer |-> <<>>]
       ELSE [error |-> "", doc |-> m.diddoc, signer |-> <<m.signer>>]
  ELSE IF m.did = <<>> THEN [error |-> "KeyError", doc |-> <<>>, signer |-> <<>>]
  ELSE [error |-> resolve(m.did[1]).error, doc |-> resolve(m.did[1]).doc,
        signer |-> <<>>]

\* OobDidExchange.target_from_doc: the first DIDComm service with an http
\* endpoint; next() on no such service ends the coroutine with RuntimeError.
target_from_doc(doc) ==
  IF doc = <<>> \/ doc[1].serviceEndpoint \notin HttpEndpoints
  THEN [error |-> "RuntimeError", target |-> <<>>]
  ELSE [error |-> "", target |-> <<target_of(doc[1])>>]

\* OobDidExchange.request, up to the await of the response's send.
oob_request(c, m) ==
  LET popped == IF ~conn[c].multiuse THEN connections \ {c} ELSE connections
      d      == doc_from_request_or_response(m)
      t      == target_from_doc(d.doc)
      mc     == ConnectionMachine(conn[c].state, "receive_request")
      n      == Len(conn) + 1
      invite == [conn[c] EXCEPT !.state = mc.state]
      made   == [from_invite(c, invite, n, t.target) EXCEPT !.diddoc = d.doc]
      rec    == [made EXCEPT !.state = ConnectionMachine(made.state, "send_response").state]
      error  == IF d.error # "" THEN d.error
                ELSE IF t.error # "" THEN t.error
                ELSE mc.error
  IN  /\ Dispatched(c)
      /\ IF error # ""
         THEN /\ connections' = popped
              /\ UNCHANGED << conn, completed, inflight >>
              /\ last' = Obs("didexchange-request", c, m, error, FALSE)
              /\ sent' = <<>>
         ELSE /\ conn' = Append([conn EXCEPT ![c] = invite], rec)
              /\ completed' = Append(completed, None)
              /\ connections' = popped \cup {n}
              /\ inflight' = inflight \cup { [op |-> "oob_request", conn |-> n, task |-> -1] }
              /\ last' = Obs("didexchange-request", c, m, "", FALSE)
              /\ sent' = << Packed(n, rec, "didexchange-response",
                                   [signer |-> verkey(c), did |-> verkey_b58(n)], FALSE) >>
      /\ UNCHANGED << agentVars, cm, envVars, pc, external_conn, invite_conn, invites >>

\* OobDidExchange.request, after the await: connection.complete().
oob_request_done(e) ==
  /\ e \in inflight
  /\ e.op = "oob_request"
  /\ Alive
  /\ inflight' = inflight \ {e}
  /\ IF CanComplete(conn[e.conn])
     THEN /\ completed' = [completed EXCEPT ![conn[e.conn].fut] = e.conn]
          /\ last' = Obs("oob_request_done", e.conn, Msg("none"), "", FALSE)
     ELSE /\ UNCHANGED completed
          /\ last' = Obs("oob_request_done", e.conn, Msg("none"), "InvalidStateError", FALSE)
  /\ sent' = <<>>
  /\ UNCHANGED << conn, connections, agentVars, cm, envVars, pc, external_conn,
                  invite_conn, invites >>

\* The exception OobDidExchange.response raises once the machine has taken
\* receive_response and before it sets the target.
oob_response_error(c, m) ==
  LET d == doc_from_request_or_response(m)
      t == target_from_doc(d.doc)
  IN  IF d.error # "" THEN d.error
      ELSE IF t.error # "" THEN t.error
      ELSE IF conn[c].invitation_key = <<>> THEN "AssertionError"
      ELSE IF ~didkey_to_verkey(conn[c].invitation_key[1]).ok THEN "ProtocolError"
      ELSE IF d.signer # <<didkey_to_verkey(conn[c].invitation_key[1]).verkey>>
      THEN "ProtocolError"
      ELSE IF conn[c].target = <<>> THEN "AssertionError"
      ELSE IF ~CanComplete(conn[c]) THEN "InvalidStateError"
      ELSE ""

\* OobDidExchange.response: the target, the document and the completion,
\* then ConnectionMachine(conn).send_complete() and the send of complete.
oob_response(c, m) ==
  LET mc == ConnectionMachine(conn[c].state, "receive_response")
      d  == doc_from_request_or_response(m)
      ms == ConnectionMachine(mc.state, "send_complete")
      up == [ conn[c] EXCEPT
                !.target = target_from_doc(d.doc).target,
                !.diddoc = d.doc,
                !.state = ms.state ]
  IN  /\ Dispatched(c)
      /\ IF mc.error # ""
         THEN /\ UNCHANGED << conn, completed >>
              /\ last' = Obs("didexchange-response", c, m, mc.error, FALSE)
              /\ sent' = <<>>
         ELSE IF oob_response_error(c, m) # ""
         THEN /\ conn' = [conn EXCEPT ![c].state = mc.state]
              /\ UNCHANGED completed
              /\ last' = Obs("didexchange-response", c, m, oob_response_error(c, m), FALSE)
              /\ sent' = <<>>
         ELSE /\ conn' = [conn EXCEPT ![c] = up]
              /\ completed' = [completed EXCEPT ![conn[c].fut] = c]
              /\ last' = Obs("didexchange-response", c, m, ms.error, FALSE)
              /\ sent' = IF ms.error # "" THEN <<>>
                         ELSE << Packed(c, up, "didexchange-complete", <<>>, TRUE) >>
      /\ UNCHANGED << connections, agentVars, cm, taskVars >>

\* OobDidExchange.complete
oob_complete(c, m) ==
  LET mc == ConnectionMachine(conn[c].state, "receive_complete")
  IN  /\ Dispatched(c)
      /\ conn' = [conn EXCEPT ![c].state = mc.state]
      /\ last' = Obs("didexchange-complete", c, m, mc.error, FALSE)
      /\ sent' = <<>>
      /\ UNCHANGED << connections, completed, agentVars, cm, taskVars >>

\* BasicMessage.message: the reply on the same connection.
message(c, m) ==
  /\ Dispatched(c)
  /\ last' = Obs("message", c, m, "", ~CanSend(conn[c]))
  /\ sent' = IF ~CanSend(conn[c]) THEN <<>>
             ELSE << Packed(c, conn[c], "message", <<>>, FALSE) >>
  /\ UNCHANGED << connVars, agentVars, cm, taskVars >>

\* A type main registered no handler for (the DID-exchange types among them).
unhandled(c, m) ==
  /\ Dispatched(c)
  /\ last' = Obs(m.kind, c, m, "NoRegisteredHandlerException", FALSE)
  /\ sent' = <<>>
  /\ UNCHANGED << connVars, agentVars, cm, taskVars >>

\* ------------------------------------------------------------------------
\* Message retriever: the ws task, the poll loop that start() runs inside
\* main, and stop() in main's finally
\* ------------------------------------------------------------------------

\* Most web socket sessions a run opens.
MaxSessions == 2

\* The trust ping of poll, packed for the mediator.
Ping(c) == Packed(c, conn[c], "ping", [response_requested |-> FALSE], TRUE)

\* What a step of the retriever leaves to see.
RetrieverObs(kind, error) == [TaskObs(kind, error) EXCEPT !.conn = retriever.connection]

\* session.ws_connect(self.endpoint) succeeds: self.socket = socket.
ws_connected ==
  /\ pc[0] \in { "ready", "stopping" }
  /\ retriever.ws_task = "connecting" /\ ~retriever.cancel_requested
  /\ retriever.sessions < MaxSessions
  /\ retriever' = [ retriever EXCEPT !.ws_task = "reading", !.socket = "open",
                                     !.sessions = @ + 1 ]
  /\ last' = RetrieverObs("ws_connected", "")
  /\ sent' = <<>>
  /\ UNCHANGED << connVars, agentVars, cm, args, store, posts, pc,
                  external_conn, invite_conn, inflight, invites >>

\* session.ws_connect raises: the exception is logged, self.socket = None.
ws_connect_failed ==
  /\ pc[0] \in { "ready", "stopping" }
  /\ retriever.ws_task = "connecting" /\ ~retriever.cancel_requested
  /\ retriever' = session_ended(retriever)
  /\ last' = RetrieverObs("ws_connect_failed", "")
  /\ sent' = <<>>
  /\ UNCHANGED << connVars, agentVars, cm, args, store, posts, pc,
                  external_conn, invite_conn, inflight, invites >>

\* The fault of a handle_ws that lets the exception of a frame out: it ends
\* the async for of ws(), and the session with it.
handle_ws_uncaught(r, error) ==
  IF error # "" THEN session_ended(r) ELSE r

\* handle_ws on a binary frame, for the retriever: an exception of unpack
\* or dispatch is logged and the async for of ws() goes on.
handle_ws(r, error) ==
  IF error # "" THEN [r EXCEPT !.logged = TRUE] ELSE r

\* handle_ws on a binary frame: the forward inside is unpacked by the
\* mediator's connection and dispatched (Routing.forward, as in forward).
ws_frame(m) ==
  LET c     == retriever.connection
      error == forward_error(c, m)
  IN  /\ pc[0] \in { "ready", "stopping" }
      /\ retriever.ws_task = "reading" /\ retriever.socket = "open"
      /\ Dispatched(c)
      /\ retriever' = handle_ws(retriever, error)
      /\ last' = Obs("forward", c, m, error, FALSE)
      /\ sent' = IF error # "" THEN <<>>
                 ELSE << [ via |-> "_send", conn |-> agent_connection,
                           endpoint |-> conn[agent_connection].target[1].endpoint,
                           recipients |-> <<>>, return_route |-> FALSE,
                           type |-> "raw", body |-> json_dumps(m.msg[1]) ] >>
      /\ UNCHANGED << connVars, agentVars, cm, args, store, posts, pc,
                      external_conn, invite_conn, inflight, invites >>

\* The session is over, closed by the mediator or by an error: the async
\* for ends or the exception is logged, and self.socket = None.
ws_session_ended ==
  /\ pc[0] \in { "ready", "stopping" }
  /\ retriever.ws_task = "reading" /\ retriever.socket = "open"
  /\ retriever' = session_ended(retriever)
  /\ last' = RetrieverObs("ws_session_ended", "")
  /\ sent' = <<>>
  /\ UNCHANGED << connVars, agentVars, cm, args, store, posts, pc,
                  external_conn, invite_conn, inflight, invites >>

\* The read of the ws task ends after stop() closed the socket.
ws_closed ==
  /\ pc[0] = "stopping"
  /\ retriever.ws_task = "reading" /\ retriever.socket = "closed"
  /\ retriever' = session_ended(retriever)
  /\ last' = RetrieverObs("ws_closed", "")
  /\ sent' = <<>>
  /\ UNCHANGED << connVars, agentVars, cm, args, store, posts, pc,
                  external_conn, invite_conn, inflight, invites >>

\* ws_task.cancel() reaches the task in its await of ws_connect.
ws_cancelled ==
  /\ pc[0] = "stopping"
  /\ retriever.cancel_requested
  /\ retriever.ws_task \in { "connecting", "reading" }
  /\ retriever' = [retriever EXCEPT !.ws_task = "cancelled", !.cancel_requested = FALSE]
  /\ last' = RetrieverObs("ws_cancelled", "")
  /\ sent' = <<>>
  /\ UNCHANGED << connVars, agentVars, cm, args, store, posts, pc,
                  external_conn, invite_conn, inflight, invites >>

\* A sleep of start() or of poll() is over and the loop of poll looks at
\* self.socket: with one it packs and sends the ping and sleeps again,
\* without one it breaks, start() returns and main's finally calls stop().
poll ==
  LET c       == retriever.connection
      stopped == stop([retriever EXCEPT !.start = "returned"])
      failed  == stop([retriever EXCEPT !.start = "raised"])
  IN  /\ pc[0] = "ready"
      /\ retriever.start = "sleep"
      /\ IF retriever.socket = "none"
         THEN /\ retriever' = stopped
              /\ pc' = [pc EXCEPT ![0] = main_end(stopped)]
              /\ last' = RetrieverObs("poll", "")
              /\ sent' = <<>>
         ELSE IF ~CanSend(conn[c])
         THEN /\ retriever' = failed
              /\ pc' = [pc EXCEPT ![0] = main_end(failed)]
              /\ last' = RetrieverObs("poll", "SendFailed")
              /\ sent' = <<>>
         ELSE /\ UNCHANGED << retriever, pc >>
              /\ last' = RetrieverObs("poll", "")
              /\ sent' = << Ping(c) >>
      /\ UNCHANGED << connVars, agentVars, cm, args, store, posts,
                      external_conn, invite_conn, inflight, invites >>

\* main is cancelled at one of its awaits.  In retriever.start() the
\* finally calls stop(); before, main ends at once: nothing is saved.
main_cancelled ==
  LET stopped == stop([retriever EXCEPT !.start = "cancelled"])
  IN  /\ pc[0] \in { "await_invite", "receive_mediator_invite",
                    "await_completion", "send_mediate_request", "await_grant",
                    "await_keylist_update_response", "await_agent_completion",
                    "save_connections", "ready" }
      /\ IF pc[0] = "ready"
         THEN /\ retriever' = stopped
              /\ pc' = [pc EXCEPT ![0] = main_end(stopped)]
         ELSE /\ pc' = [pc EXCEPT ![0] = "CancelledError"]
              /\ UNCHANGED retriever
      /\ inflight' = { e \in inflight : e.task # 0 }
      /\ last' = TaskObs("main_cancelled", "CancelledError")
      /\ sent' = <<>>
      /\ UNCHANGED << connVars, agentVars, cm, args, store, posts,
                      external_conn, invite_conn, invites >>

\* await self.socket.close() in stop() is over, the read of the ws task
\* with it; stop() goes on to the tasks.
stop_closed ==
  LET stopped == stop_tasks(retriever)
  IN  /\ pc[0] = "stopping"
      /\ retriever.stop = "closing"
      /\ retriever.ws_task # "reading"
      /\ retriever' = stopped
      /\ pc' = [pc EXCEPT ![0] = main_end(stopped)]
      /\ last' = RetrieverObs("stop", stopped.escaped)
      /\ sent' = <<>>
      /\ UNCHANGED << connVars, agentVars, cm, args, store, posts,
                      external_conn, invite_conn, inflight, invites >>

\* await self.ws_task in stop() is over.
stop_returned ==
  LET stopped == stop_tasks(retriever)
  IN  /\ pc[0] = "stopping"
      /\ retriever.stop = "awaiting_ws"
      /\ retriever.ws_task \in { "done", "cancelled" }
      /\ retriever' = stopped
      /\ pc' = [pc EXCEPT ![0] = main_end(stopped)]
      /\ last' = RetrieverObs("stop", stopped.escaped)
      /\ sent' = <<>>
      /\ UNCHANGED << connVars, agentVars, cm, args, store, posts,
                      external_conn, invite_conn, inflight, invites >>

\* The steps of the retriever's tasks and of stop().
RetrieverStep ==
  \/ ws_connected
  \/ ws_connect_failed
  \/ ws_session_ended
  \/ ws_closed
  \/ ws_cancelled
  \/ poll
  \/ stop_closed
  \/ stop_returned

\* ------------------------------------------------------------------------
\* The running proxy
\* ------------------------------------------------------------------------

MainStep ==
  \/ main_start
  \/ main_invite_received
  \/ main_mediator_completed
  \/ request_mediation_from_external(0)
  \/ mediate_request_sent(0)
  \/ request_mediation_returned(0)
  \/ send_keylist_update(0)
  \/ main_agent_check
  \/ main_agent_completed
  \/ main_ready

Continue ==
  \/ \E e \in inflight : receive_mediator_invite_done(e)
  \/ \E e \in inflight : request_done(e)

\* main is cancelled before it is ready.  The retriever's tasks, and the
\* cancellation that stops them, are in RestartSpec.
Shutdown == pc[0] # "ready" /\ main_cancelled

Conns == 1..Len(conn)

Next ==
  \/ MainStep
  \/ main_saved
  \/ Continue
  \/ Shutdown
  \/ admin_receive_mediator_invitation
  \/ \E c \in Conns, m \in ForwardMsgs : forward(c, m)
  \/ \E c \in Conns : mediate_request(c, Msg("mediate-request"))
  \/ \E c \in Conns, m \in MainGrantMsgs : mediate_grant(c, m)
  \/ \E c \in Conns, m \in KeylistUpdateMsgs : keylist_update(c, m)
  \/ \E c \in Conns : keylist_update_response(c, Msg("keylist-update-response"))
  \/ \E c \in Conns : request(c, AgentRequest)
  \/ \E c \in Conns, m \in ResponseMsgs : response(c, m)
  \/ \E c \in Conns : ping(c, Msg("ping"))
  \/ \E c \in Conns : ping_response(c, Msg("ping_response"))
  \/ \E c \in Conns : message(c, Msg("message"))
  \/ \E c \in Conns : unhandled(c, DidExchangeRequest)

\* The event loop runs every task that is ready, and the transaction of
\* the save ends.
Fairness ==
  /\ WF_vars(MainStep) /\ WF_vars(Continue)
  /\ []<>(pc[0] # "save_connections")

Spec == Init /\ [][Next]_vars /\ Fairness

\* ------------------------------------------------------------------------
\* request_mediation_from_external under concurrent callers: a mediator, an
\* agent and an invitation connection registered and both slots set, MaxCallers
\* tasks about to call request_mediation_from_external on the mediator
\* connection, and the upstream's grants in every form on every connection
\* ------------------------------------------------------------------------

Callers == 1..MaxCallers

MediationInit ==
  /\ conn = << Loaded(1, MediatorKey, MediatorEndpoint),
               Loaded(2, AgentKey, AgentEndpoint),
               [ Connection(3, <<>>) EXCEPT
                   !.state = ConnectionMachine("null", "send_invite").state ] >>
  /\ connections = 1..3
  /\ completed = [i \in 1..3 |-> None]
  /\ mediator_connection = 1
  /\ agent_connection = 2
  /\ agent_invitation = <<>>
  /\ agent_state = "ready"
  /\ mediator_connection_event = FALSE
  /\ cm = CoordinateMediation
  /\ args = [mediator_invite |-> FALSE, enable_store |-> FALSE]
  /\ store = EmptyStore
  /\ retriever = NoRetriever
  /\ posts = <<>>
  /\ pc = [t \in 0..MaxCallers |-> IF t = 0 THEN "ready" ELSE "request_mediation"]
  /\ external_conn = [t \in 0..MaxCallers |-> IF t = 0 THEN None ELSE 1]
  /\ invite_conn = None
  /\ inflight = {}
  /\ invites = 0
  /\ last = TaskObs("init", "")
  /\ sent = <<>>

MediationNext ==
  \/ \E t \in Callers : request_mediation_from_external(t)
  \/ \E t \in Callers : mediate_request_sent(t)
  \/ \E t \in Callers : request_mediation_returned(t)
  \/ \E c \in Conns, m \in GrantMsgs : mediate_grant(c, m)
  \/ \E c \in Conns : mediate_request(c, Msg("mediate-request"))

\* The event loop resumes every caller whose await has ended.
MediationFairness ==
  \A t \in Callers :
    /\ WF_vars(mediate_request_sent(t))
    /\ WF_vars(request_mediation_returned(t))

MediationSpec == MediationInit /\ [][MediationNext]_vars /\ MediationFairness

\* ------------------------------------------------------------------------
\* The keylist messages on their own: the same three connections, the
\* mediation state as constructed or as a handled grant leaves it, MaxCallers
\* tasks about to call send_keylist_update on the mediator connection as
\* main does, and every keylist-update on every connection
\* ------------------------------------------------------------------------

\* The module once a request was made and its grant handled.
AfterGrant ==
  [ CoordinateMediation EXCEPT
      !.external_mediator_endpoint = <<MediatorEndpoint>>,
      !.external_mediator_routing_keys = << <<bytes_to_b58(<<0, 7>>)>> >>,
      !.external_pending_request = << [MediationRequest(1) EXCEPT !.event = TRUE] >> ]

KeylistInit ==
  /\ conn = << Loaded(1, MediatorKey, MediatorEndpoint),
               Loaded(2, AgentKey, AgentEndpoint),
               [ Connection(3, <<>>) EXCEPT
                   !.state = ConnectionMachine("null", "send_invite").state ] >>
  /\ connections = 1..3
  /\ completed = [i \in 1..3 |-> None]
  /\ mediator_connection = 1
  /\ agent_connection = 2
  /\ agent_invitation = <<>>
  /\ agent_state = "ready"
  /\ mediator_connection_event = FALSE
  /\ cm \in { CoordinateMediation, AfterGrant }
  /\ args = [mediator_invite |-> FALSE, enable_store |-> FALSE]
  /\ store = EmptyStore
  /\ retriever = NoRetriever
  /\ posts = <<>>
  /\ pc = [t \in 0..MaxCallers |-> IF t = 0 THEN "ready" ELSE "returned"]
  /\ external_conn = [t \in 0..MaxCallers |-> IF t = 0 THEN None ELSE 1]
  /\ invite_conn = None
  /\ inflight = {}
  /\ invites = 0
  /\ last = TaskObs("init", "")
  /\ sent = <<>>

KeylistNext ==
  \/ \E t \in Callers : send_keylist_update(t)
  \/ \E c \in Conns, m \in KeylistUpdateMsgs : keylist_update(c, m)
  \/ \E c \in Conns : keylist_update_response(c, Msg("keylist-update-response"))

\* The event loop runs every task that is ready.
KeylistFairness == \A t \in Callers : WF_vars(send_keylist_update(t))

KeylistSpec == KeylistInit /\ [][KeylistNext]_vars /\ KeylistFairness

\* ------------------------------------------------------------------------
\* Routing.forward on its own: a mediator, an agent and an invitation
\* connection registered, each slot unset or holding either of the first two,
\* and every forward on every connection
\* ------------------------------------------------------------------------

Slots == { None, 1, 2 }

ForwardInit ==
  \E m \in Slots, a \in Slots :
    /\ conn = << Loaded(1, MediatorKey, MediatorEndpoint),
                 Loaded(2, AgentKey, AgentEndpoint),
                 [ Connection(3, <<>>) EXCEPT
                     !.state = ConnectionMachine("null", "send_invite").state ] >>
    /\ connections = 1..3
    /\ completed = [i \in 1..3 |-> None]
    /\ mediator_connection = m
    /\ agent_connection = a
    /\ agent_invitation = <<>>
    /\ agent_state = "setup"
    /\ mediator_connection_event = FALSE
    /\ cm = CoordinateMediation
    /\ args = [mediator_invite |-> FALSE, enable_store |-> FALSE]
    /\ store = EmptyStore
    /\ retriever = NoRetriever
    /\ posts = <<>>
    /\ pc = [t \in {0} |-> "await_invite"]
    /\ external_conn = [t \in {0} |-> None]
    /\ invite_conn = None
    /\ inflight = {}
    /\ invites = 0
    /\ last = TaskObs("init", "")
    /\ sent = <<>>

ForwardNext == \E c \in Conns, m \in ForwardMsgs : forward(c, m)

ForwardSpec == ForwardInit /\ [][ForwardNext]_vars

\* ------------------------------------------------------------------------
\* The connection state machine on its own: MaxMachines connections in any
\* state, and any event the handlers call applied to any of them
\* ------------------------------------------------------------------------

MachineInit ==
  \E states \in [1..MaxMachines -> States] :
    /\ conn = [ i \in 1..MaxMachines |->
                  [Connection(i, <<>>) EXCEPT !.state = states[i]] ]
    /\ connections = 1..MaxMachines
    /\ completed = [i \in 1..MaxMachines |-> None]
    /\ mediator_connection = None
    /\ agent_connection = None
    /\ agent_invitation = <<>>
    /\ agent_state = "init"
    /\ mediator_connection_event = FALSE
    /\ cm = CoordinateMediation
    /\ args = [mediator_invite |-> FALSE, enable_store |-> FALSE]
    /\ store = EmptyStore
    /\ retriever = NoRetriever
    /\ posts = <<>>
    /\ pc = [t \in {0} |-> "start"]
    /\ external_conn = [t \in {0} |-> None]
    /\ invite_conn = None
    /\ inflight = {}
    /\ invites = 0
    /\ last = TaskObs("init", "")
    /\ sent = <<>>

\* ConnectionMachine(conn).<e>() on connection c.
machine_event(c, e) ==
  LET mc == ConnectionMachine(conn[c].state, e)
  IN  /\ conn' = [conn EXCEPT ![c].state = mc.state]
      /\ last' = Obs(e, c, Msg("none"), mc.error, FALSE)
      /\ sent' = <<>>
      /\ UNCHANGED << connections, completed, agentVars, cm, taskVars >>

MachineNext == \E c \in Conns, e \in Events : machine_event(c, e)

MachineSpec == MachineInit /\ [][MachineNext]_vars

\* ------------------------------------------------------------------------
\* The handshakes on their own, with the routes of both Connections and
\* OobDidExchange in the dispatcher: invitations made and received, and
\* every request, response, ping and complete on every registered connection
\* ------------------------------------------------------------------------

HandshakeInit ==
  /\ conn = <<>>
  /\ connections = {}
  /\ completed = <<>>
  /\ mediator_connection = None
  /\ agent_connection = None
  /\ agent_invitation = <<>>
  /\ agent_state = "setup"
  /\ mediator_connection_event = FALSE
  /\ cm = CoordinateMediation
  /\ args = [mediator_invite |-> FALSE, enable_store |-> FALSE]
  /\ store = EmptyStore
  /\ retriever = NoRetriever
  /\ posts = <<>>
  /\ pc = [t \in {0} |-> "await_invite"]
  /\ external_conn = [t \in {0} |-> None]
  /\ invite_conn = None
  /\ inflight = {}
  /\ invites = 0
  /\ last = TaskObs("init", "")
  /\ sent = <<>>

\* The inviter's side: invitations, the requests on them, the continuation
\* of the request handlers, and the ping or complete that ends the handshake.
InviterNext ==
  \/ \E multiuse \in BOOLEAN : connections_create_invitation(multiuse)
  \/ \E e \in inflight : request_done(e)
  \/ \E e \in inflight : oob_request_done(e)
  \/ \E c \in Conns, m \in RequestMsgs : request(c, m)
  \/ \E c \in Conns, m \in DidExchangeRequestMsgs : oob_request(c, m)
  \/ \E c \in Conns : ping(c, Msg("ping"))
  \/ \E c \in Conns : oob_complete(c, Msg("didexchange-complete"))

\* The invitee's side: invitations received and the responses to the
\* requests made on them.
InviteeNext ==
  \/ \E oob \in BOOLEAN : handle_oob_and_connections_invites(oob)
  \/ \E e \in inflight : receive_mediator_invite_done(e)
  \/ \E c \in Conns, m \in ResponseMsgs : response(c, m)
  \/ \E c \in Conns, m \in DidExchangeResponseMsgs : oob_response(c, m)
  \/ \E c \in Conns : ping_response(c, Msg("ping_response"))

HandshakeNext == InviterNext \/ InviteeNext

\* The event loop resumes every handler whose send has ended.
HandshakeFairness ==
  /\ WF_vars(\E e \in inflight : receive_mediator_invite_done(e))
  /\ WF_vars(\E e \in inflight : request_done(e))
  /\ WF_vars(\E e \in inflight : oob_request_done(e))

HandshakeSpec == HandshakeInit /\ [][HandshakeNext]_vars /\ HandshakeFairness

InviterSpec == HandshakeInit /\ [][InviterNext]_vars /\ HandshakeFairness

InviteeSpec == HandshakeInit /\ [][InviteeNext]_vars /\ HandshakeFairness

\* ------------------------------------------------------------------------
\* Properties
\* ------------------------------------------------------------------------

\* The event of the request the module holds is set.
EventSet ==
  /\ cm.external_pending_request # <<>>
  /\ cm.external_pending_request[1].event

\* C1: a forward {to, msg} is decided in this order: agent_connection unset,
\* AgentConnectionNotEstablished; else mediator_connection unset,
\* MediatorConnectionNotEstablished; else from a connection that is not
\* mediator_connection, ForwardFromUnauthorizedConnection; else one POST to
\* the agent connection's endpoint of a body that reads back as the forward's
\* msg. The first three send nothing, and no raw POST is ever made for
\* anything but a forward that came on the mediator connection.
ForwardDecidedInOrder ==
  /\ (last.kind = "forward" /\ last.msg.to # <<>> /\ last.msg.msg # <<>>) =>
       IF agent_connection = None
       THEN last.error = "AgentConnectionNotEstablished" /\ sent = <<>>
       ELSE IF mediator_connection = None
       THEN last.error = "MediatorConnectionNotEstablished" /\ sent = <<>>
       ELSE IF last.conn # mediator_connection
       THEN last.error = "ForwardFromUnauthorizedConnection" /\ sent = <<>>
       ELSE /\ last.error = ""
            /\ Len(sent) = 1
            /\ sent[1].via = "_send"
            /\ sent[1].endpoint = conn[agent_connection].target[1].endpoint
            /\ json_loads(sent[1].body) = last.msg.msg[1]
  /\ \A i \in 1..Len(sent) :
       sent[i].via = "_send" =>
         /\ last.kind = "forward"
         /\ mediator_connection # None
         /\ last.conn = mediator_connection

\* C1, its case: a forward from the mediator connection was POSTed, and
\* another connection is registered that it could have come from.
ForwardDelivered ==
  /\ last.kind = "forward"
  /\ last.error = ""
  /\ Len(sent) = 1
  /\ Len(last.msg.msg[1]) = 3
  /\ connections \ {mediator_connection} # {}

\* C2: a forward rejected for one of the three reasons is answered, on the
\* connection it came from, with a problem report that carries the error's
\* code.
ForwardRejectionReported ==
  (last.kind = "forward" /\ last.error \in ForwardErrors /\ CanSend(conn[last.conn])) =>
    \E i \in 1..Len(sent) :
      /\ sent[i].type = "problem-report"
      /\ sent[i].conn = last.conn
      /\ sent[i].body.code = Code(last.error)

\* C2, its case: a forward that came on the agent connection, which can be
\* answered, was rejected as unauthorized and nothing was sent.
ForwardRejectedSilently ==
  /\ last.kind = "forward"
  /\ last.error = "ForwardFromUnauthorizedConnection"
  /\ last.conn = agent_connection
  /\ CanSend(conn[last.conn])
  /\ sent = <<>>

\* The verkey a routing key stands for, in either of its forms.
RoutingKeyBytes(key) ==
  IF startswith(key, DidKeyPrefix) THEN didkey_to_verkey(key).verkey
  ELSE b58_to_bytes(key)

\* The grant sent downstream for the stored endpoint and routing keys R:
\* endpoint E, then the did:key of the mediator connection's verkey followed
\* by R in order, every key in did:key form and a did:key as it was.
GrantFor(g, c) ==
  LET R  == cm.external_mediator_routing_keys[1]
      rk == g.body.routing_keys
  IN  /\ g.type = "mediate-grant"
      /\ g.conn = c
      /\ g.body.endpoint = cm.external_mediator_endpoint
      /\ Len(rk) = 1 + Len(R)
      /\ didkey_to_verkey(rk[1]) = [ok |-> TRUE, verkey |-> verkey(mediator_connection)]
      /\ \A j \in 1..Len(R) :
           /\ startswith(rk[j + 1], DidKeyPrefix)
           /\ didkey_to_verkey(rk[j + 1]).ok
           /\ didkey_to_verkey(rk[j + 1]).verkey = RoutingKeyBytes(R[j])
           /\ startswith(R[j], DidKeyPrefix) => rk[j + 1] = R[j]

\* C3: once upstream mediation is granted with endpoint E and routing keys
\* R, whatever R is, a mediate-request from the agent connection is answered
\* on it with the mediate-grant of E and did:key(proxy verkey) followed by R
\* in did:key form.
MediateRequestGranted ==
  (last.kind = "mediate-request" /\ EventSet /\ last.conn = agent_connection) =>
    /\ Len(sent) = 1
    /\ GrantFor(sent[1], last.conn)

\* C3, its case: granted with an empty routing_keys list, a mediate-request
\* from the agent connection ended in an AssertionError and nothing was sent.
MediateRequestAssertionFailed ==
  /\ last.kind = "mediate-request"
  /\ EventSet
  /\ last.conn = agent_connection
  /\ cm.external_mediator_routing_keys = << <<>> >>
  /\ last.error = "AssertionError"
  /\ sent = <<>>

\* C3, the grants with one routing key or more: the answer is the grant the
\* claim describes.
MediateRequestGrantedNonEmpty ==
  ( /\ last.kind = "mediate-request" /\ EventSet /\ last.conn = agent_connection
    /\ cm.external_mediator_routing_keys # << <<>> >> ) =>
    /\ Len(sent) = 1
    /\ GrantFor(sent[1], last.conn)

\* C4: a mediate-request handled on a connection that can be answered while
\* upstream mediation is not granted (no request made, or made and not
\* granted) fails ExternalMediationNotEstablished: the one message sent is
\* the problem report external-mediation-not-established on that connection,
\* and agent_request_received is false.
MediateRequestBeforeGrant ==
  (last.kind = "mediate-request" /\ ~EventSet /\ CanSend(conn[last.conn])) =>
    /\ last.error = "ExternalMediationNotEstablished"
    /\ Len(sent) = 1
    /\ sent[1].type = "problem-report"
    /\ sent[1].conn = last.conn
    /\ sent[1].body.code = "external-mediation-not-established"
    /\ ~cm.agent_request_received

\* C4, its case: the upstream request is made, no grant has come, and a
\* mediate-request from the agent connection was answered with the report.
MediateRequestTooEarly ==
  /\ last.kind = "mediate-request"
  /\ last.conn = agent_connection
  /\ cm.external_pending_request # <<>>
  /\ ~cm.external_pending_request[1].event
  /\ last.error = "ExternalMediationNotEstablished"
  /\ Len(sent) = 1

\* The callers past the check of request_mediation_from_external in state p.
PastCheck(p) ==
  { t \in DOMAIN p :
      p[t] \in { "send_mediate_request", "await_grant", "returned",
                 "await_keylist_update_response", "done", "SendFailed" } }

\* C5: a call of request_mediation_from_external made while a request is
\* held fails RequestAlreadyPending, sends nothing and leaves the request as
\* it is; a call that passes sends one mediate-request; so at most one
\* caller is ever past the check, however the calls interleave.
OneRequestOutstanding ==
  [][ /\ Cardinality(PastCheck(pc')) <= 1
      /\ \A t \in DOMAIN pc :
           (pc[t] = "request_mediation" /\ pc'[t] # "request_mediation") =>
             IF cm.external_pending_request # <<>>
             THEN /\ pc'[t] = "RequestAlreadyPending"
                  /\ sent' = <<>>
                  /\ cm' = cm
             ELSE /\ pc'[t] = "send_mediate_request"
                  /\ Len(sent') = 1
                  /\ sent'[1].type = "mediate-request"
                  /\ sent'[1].return_route ]_vars

\* C5, its case: one caller awaits the grant, none has come, and a second
\* call has failed RequestAlreadyPending.
SecondCallFailed ==
  /\ \E t \in Callers : pc[t] = "await_grant"
  /\ \E t \in Callers : pc[t] = "RequestAlreadyPending"
  /\ ~EventSet
  /\ last.error = "RequestAlreadyPending"
  /\ sent = <<>>

\* C6: a caller has returned only if a mediate-grant was handled, the event
\* is set by nothing but a handled grant, and the stored endpoint and routing
\* keys are those of the grant handled last; a caller whose grant is handled,
\* before it begins to wait or while it waits, returns.
ReturnsOnceGranted ==
  /\ [](\A t \in Callers :
         pc[t] \in { "returned", "await_keylist_update_response", "done" } =>
           /\ EventSet
           /\ cm.external_mediator_endpoint # <<>>
           /\ cm.external_mediator_routing_keys # <<>>)
  /\ [][ /\ (last'.kind = "mediate-grant" /\ last'.error = "") =>
              /\ cm'.external_mediator_endpoint = last'.msg.endpoint
              /\ cm'.external_mediator_routing_keys = last'.msg.routing_keys
              /\ cm'.external_pending_request[1].event
         /\ ( \/ cm'.external_mediator_endpoint # cm.external_mediator_endpoint
              \/ cm'.external_mediator_routing_keys # cm.external_mediator_routing_keys
              \/ (cm'.external_pending_request # <<>> /\ cm'.external_pending_request[1].event
                    /\ ~EventSet) ) =>
              (last'.kind = "mediate-grant" /\ last'.error = "") ]_vars
  /\ \A t \in Callers :
       (pc[t] \in { "send_mediate_request", "await_grant" } /\ EventSet)
         ~> (pc[t] = "returned")

\* C6, its case: the grant was handled while the caller's send was in
\* flight, before it began to wait, and the caller has returned.
ReturnedWithoutWaiting ==
  /\ last.kind = "mediate_request_sent"
  /\ \E t \in Callers : pc[t] = "returned"
  /\ EventSet
  /\ cm.external_mediator_routing_keys # <<>>
  /\ Len(cm.external_mediator_routing_keys[1]) = 2

\* C7: a mediate-grant handled when no upstream request has been made fails
\* UnexpectedMediationGrant, and the stored endpoint and routing keys are
\* unset afterwards.
UnexpectedGrantRejected ==
  (last.kind = "mediate-grant" /\ cm.external_pending_request = <<>>) =>
    /\ last.error = "UnexpectedMediationGrant"
    /\ cm.external_mediator_endpoint = <<>>
    /\ cm.external_mediator_routing_keys = <<>>

\* C7, its case: a grant with a routing key came on the mediator connection
\* with no request made, and was rejected.
GrantWithoutRequest ==
  /\ last.kind = "mediate-grant"
  /\ mediator_connection # None
  /\ last.conn = mediator_connection
  /\ last.msg.routing_keys # << <<>> >>
  /\ last.error = "UnexpectedMediationGrant"
  /\ cm.external_pending_request = <<>>

\* C8: handling a keylist-update changes nothing of the registry, the
\* connections, the slots, the mediation state or the tasks, and the one
\* message sent, on the connection it came from, is a keylist-update-response
\* with an entry per entry of updates, in order, with its recipient_key and
\* action and the result success.
KeylistUpdateAcknowledged ==
  [][ last'.kind = "keylist-update" =>
        /\ UNCHANGED << connVars, agentVars, cm, taskVars >>
        /\ CanSend(conn[last'.conn]) =>
             /\ Len(sent') = 1
             /\ sent'[1].type = "keylist-update-response"
             /\ sent'[1].conn = last'.conn
             /\ Len(sent'[1].body) = Len(last'.msg.updates)
             /\ \A i \in 1..Len(last'.msg.updates) :
                  /\ sent'[1].body[i].recipient_key = last'.msg.updates[i].recipient_key
                  /\ sent'[1].body[i].action = last'.msg.updates[i].action
                  /\ sent'[1].body[i].result = "success" ]_vars

\* C8, its case: a keylist-update of two different entries from the agent
\* connection was answered.
KeylistUpdateAnswered ==
  /\ last.kind = "keylist-update"
  /\ last.conn = agent_connection
  /\ Len(last.msg.updates) = 2
  /\ last.msg.updates[1] # last.msg.updates[2]
  /\ Len(sent) = 1

\* C9 as stated: a keylist-update from the agent connection that names K1
\* leads to a keylist-update that names K1 being sent on the mediator
\* connection.
KeylistUpdatePropagates ==
  ( /\ last.kind = "keylist-update"
    /\ last.conn = agent_connection
    /\ mediator_connection # None
    /\ \E i \in 1..Len(last.msg.updates) : last.msg.updates[i].recipient_key = "K1" )
  ~> ( \E i \in 1..Len(sent) :
         /\ sent[i].type = "keylist-update"
         /\ sent[i].conn = mediator_connection
         /\ \E j \in 1..Len(sent[i].body) : sent[i].body[j].recipient_key = "K1" )

\* C9, amended: handling a keylist-update sends nothing but the response on
\* the connection it came from, and the only keylist-update the proxy sends
\* is send_keylist_update's, on the connection mediation was requested on, adding that
\* connection's own verkey.
KeylistUpdateStaysLocal ==
  /\ last.kind = "keylist-update" =>
       \A i \in 1..Len(sent) :
         sent[i].type = "keylist-update-response" /\ sent[i].conn = last.conn
  /\ \A i \in 1..Len(sent) :
       sent[i].type = "keylist-update" =>
         /\ last.kind = "send_keylist_update"
         /\ sent[i].conn = last.conn
         /\ \E t \in DOMAIN pc :
              pc[t] = "await_keylist_update_response" /\ external_conn[t] = last.conn
         /\ sent[i].body = << [ recipient_key |-> verkey_b58(sent[i].conn),
                                action |-> "add" ] >>

\* C9, its case: with the mediator connection set, a keylist-update adding
\* K1 came from the agent connection and only the response was sent.
KeylistUpdateNotPassedOn ==
  /\ last.kind = "keylist-update"
  /\ last.conn = agent_connection
  /\ mediator_connection # None
  /\ CanSend(conn[mediator_connection])
  /\ last.msg.updates # <<>>
  /\ last.msg.updates[1] = [recipient_key |-> "K1", action |-> "add"]
  /\ Len(sent) = 1

\* C10: for every state and event the table gives at most one target; an
\* event with one moves the connection to it, an event with none is
\* rejected and leaves the state as it was; and an event accepted in
\* complete leaves the connection in complete.
MachineDeterministicAndClosed ==
  [][ \A c \in 1..Len(conn) :
        (last'.conn = c /\ last'.kind \in Events) =>
          LET s == conn[c].state
              e == last'.kind
          IN  /\ Cardinality(Targets(s, e)) <= 1
              /\ Targets(s, e) = {} <=> last'.error # ""
              /\ last'.error # "" => conn'[c].state = s
              /\ last'.error = "" => conn'[c].state \in Targets(s, e)
              /\ (s = "complete" /\ last'.error = "") => conn'[c].state = "complete" ]_vars

\* C10, its case: receive_response was rejected on a connection in
\* invite_sent, which is still there, beside a connection in complete.
MachineExercised ==
  /\ last.kind = "receive_response"
  /\ last.error = "TransitionNotAllowed"
  /\ conn[last.conn].state = "invite_sent"
  /\ \E c \in 1..Len(conn) : c # last.conn /\ conn[c].state = "complete"

\* A response that OobDidExchange.response accepts on connection c: a
\* document attached, validly signed by the key of c's invitation.
ValidDidExchangeResponse(c, m) ==
  /\ m.kind = "didexchange-response"
  /\ m.diddoc # <<>>
  /\ m.sig_ok
  /\ conn[c].invitation_key # <<>>
  /\ didkey_to_verkey(conn[c].invitation_key[1]).ok
  /\ m.signer = didkey_to_verkey(conn[c].invitation_key[1]).verkey

\* C11: in the DID-exchange variant the handshake ends through `complete`:
\* the invitee that handles a valid response on a connection in request_sent
\* ends in complete, by send_complete, and has sent `complete`; the inviter
\* that handles `complete` on a connection in response_sent moves it to
\* complete, by receive_complete (a connection in response_sent is not
\* left there), the machine accepting both events from those states.
CompleteMessageCompletes ==
  /\ ( /\ last.kind = "didexchange-response"
       /\ last.error # "TransitionNotAllowed"
       /\ ValidDidExchangeResponse(last.conn, last.msg)
       => /\ last.error = ""
          /\ conn[last.conn].state = "complete"
          /\ Len(sent) = 1
          /\ sent[1].type = "didexchange-complete" )
  /\ ( last.kind = "didexchange-complete"
       => conn[last.conn].state # "response_sent" )

\* C11: a valid response was handled, the completion fired, and the handler
\* ended in AttributeError before it sent `complete`.
CompleteNeverSent ==
  /\ last.kind = "didexchange-response"
  /\ ValidDidExchangeResponse(last.conn, last.msg)
  /\ last.error = "AttributeError"
  /\ completed[conn[last.conn].fut] = last.conn
  /\ conn[last.conn].state = "response_received"
  /\ sent = <<>>

\* C12: in the running proxy a valid DID-exchange request on the invitation
\* main made for the agent reaches the DID-exchange request handler: it
\* raises nothing and the response is sent on a new relationship connection.
DidExchangeRequestAnswered ==
  ( /\ last.kind = "didexchange-request"
    /\ invite_conn # None
    /\ last.conn = invite_conn
    /\ last.msg = DidExchangeRequest )
  => /\ last.error = ""
     /\ Len(sent) = 1
     /\ sent[1].type = "didexchange-response"

\* C12: the request on the agent's invitation found no handler, and the
\* agent connection is still unset.
DidExchangeRequestUnhandled ==
  /\ last.kind = "didexchange-request"
  /\ invite_conn # None
  /\ last.conn = invite_conn
  /\ last.error = "NoRegisteredHandlerException"
  /\ sent = <<>>
  /\ invite_conn \in connections
  /\ completed[conn[invite_conn].fut] = None
  /\ agent_connection = None

\* The relationship connections made from invitation i.
RelationshipsOf(i) ==
  { c \in Conns : conn[c].invitation_key = <<verkey_b58(i)>> }

\* C13: legacy handshake on the inviter's side: after create_invitation (not
\* multiuse) and a valid request on the invitation key, a trust ping on the
\* relationship key is accepted and answered, and then the relationship
\* connection is in state complete and in the registry under its key, and
\* the invitation key is not in the registry.
LegacyInviterCompletes ==
  \A i \in Invitations : \A c \in RelationshipsOf(i) :
    ( ~conn[i].multiuse /\ last.kind = "ping" /\ last.conn = c )
    => /\ last.error = ""
       /\ ~last.send_failed
       /\ Len(sent) = 1
       /\ sent[1].type = "ping_response"
       /\ conn[c].state = "complete"
       /\ c \in connections
       /\ i \notin connections

\* C13: a ping was handled on the relationship connection of a single-use
\* invitation, which is now complete.
LegacyInviterCompleted ==
  \E i \in Invitations : \E c \in RelationshipsOf(i) :
    /\ ~conn[i].multiuse
    /\ conn[c].diddoc = AgentRequest.diddoc
    /\ last.kind = "ping"
    /\ last.conn = c
    /\ conn[c].state = "complete"
    /\ connections = {c}

\* C14: an invitation that is not multiuse is replaced by its relationship
\* connection atomically: in every state another task can observe (every
\* suspension point of the request handlers and every state after a
\* handler ended, returned or raised) the registry holds the invitation
\* connection or a relationship connection made from it, never neither and
\* never both.
InvitationReplacedAtomically ==
  \A i \in Invitations :
    ~conn[i].multiuse
    => ( i \in connections ) # ( RelationshipsOf(i) \cap connections # {} )

\* C14: a request handler has raised after it popped the invitation: the
\* registry holds neither the invitation nor a relationship connection.
InvitationLost ==
  \E i \in Invitations :
    /\ ~conn[i].multiuse
    /\ last.kind = "didexchange-request"
    /\ last.conn = i
    /\ last.error = "ProtocolError"
    /\ i \notin connections
    /\ RelationshipsOf(i) = {}

\* C15: completion() releases its awaiter only once the connection has
\* reached complete: whenever a completion future is done, the connection
\* it was set to is in state complete.
CompletionMeansComplete ==
  \A f \in 1..Len(completed) :
    completed[f] # None => conn[completed[f]].state = "complete"

\* C15: the inviter's request handler has fired the completion of a
\* relationship connection that is in response_sent.
CompletedInResponseSent ==
  \E i \in Invitations : \E c \in RelationshipsOf(i) :
    /\ last.kind \in { "request_done", "oob_request_done" }
    /\ last.conn = c
    /\ last.error = ""
    /\ completed[conn[c].fut] = c
    /\ conn[c].state = "response_sent"

\* C16: a multiuse invitation is consumed more than once: every valid
\* request on the key of a multiuse invitation is accepted, leaves the
\* invitation in the registry, and yields a new relationship connection in
\* the registry, on which the response is sent.
MultiuseAcceptsEachRequest ==
  \A i \in Invitations :
    ( conn[i].multiuse /\ last.kind = "request" /\ last.conn = i
      /\ last.msg = AgentRequest )
    => /\ last.error = ""
       /\ i \in connections
       /\ Len(conn) \in RelationshipsOf(i) \cap connections
       /\ Len(sent) = 1
       /\ sent[1].type = "response"
       /\ sent[1].conn = Len(conn)

\* C16: the second valid request on a multiuse invitation was refused by
\* the state machine: the invitation has one relationship connection only.
MultiuseSecondRequestRefused ==
  \E i \in Invitations :
    /\ conn[i].multiuse
    /\ last.kind = "request"
    /\ last.conn = i
    /\ last.msg = AgentRequest
    /\ last.error = "TransitionNotAllowed"
    /\ sent = <<>>
    /\ i \in connections
    /\ conn[i].state = "request_received"
    /\ Cardinality(RelationshipsOf(i)) = 1

\* The invitee's connections: made by receive_invite, with the invitation's
\* key and a completion future of their own.
Invitees == { c \in Conns : conn[c].invitation_key # <<>> /\ conn[c].fut = c }

\* Message m is a response signed, validly, by the key of c's invitation.
SignedByInvitationKey(c, m) ==
  /\ m.sig_ok
  /\ \/ /\ m.kind = "response"
        /\ conn[c].invitation_key = <<bytes_to_b58(m.signer)>>
     \/ ValidDidExchangeResponse(c, m)

\* C17: on the invitee's side a step changes a connection's target or DID
\* document, or fires its completion, only if the step is the handling on
\* that connection of a response (legacy or DID-exchange) whose signature
\* verifies and whose signer is the connection's invitation key; a response
\* signed by any other key changes none of them.
ResponseAuthenticated ==
  [][ \A c \in Invitees :
        ( \/ conn'[c].target # conn[c].target
          \/ conn'[c].diddoc # conn[c].diddoc
          \/ completed'[c] # completed[c] )
        => /\ last'.kind \in { "response", "didexchange-response" }
           /\ last'.conn = c
           /\ SignedByInvitationKey(c, last'.msg) ]_vars

\* C17: a response signed by the invitation key was accepted: the target
\* and the document are those of the response and the completion fired.
ResponseAccepted ==
  \E c \in Invitees :
    /\ last.kind = "response"
    /\ last.conn = c
    /\ last.error = ""
    /\ last.msg.signer = MediatorInvitationKey
    /\ conn[c].target = <<Target(<<MediatorKey>>, MediatorEndpoint)>>
    /\ conn[c].diddoc = <<MediatorDoc>>
    /\ completed[c] = c

\* C18: a DID-exchange response that names the responder's DID document by
\* reference (a resolvable did, no did_doc~attach) is accepted on a
\* connection in request_sent: the target is that of the resolved document,
\* the completion has fired and `complete` is sent.
ResponseByReferenceAccepted ==
  ( /\ last.kind = "didexchange-response"
    /\ last.msg.diddoc = <<>>
    /\ last.msg.did = <<MediatorPeerDid>>
    /\ last.error # "TransitionNotAllowed" )
  => /\ conn[last.conn].target = target_from_doc(resolve(MediatorPeerDid).doc).target
     /\ completed[conn[last.conn].fut] = last.conn
     /\ Len(sent) = 1
     /\ sent[1].type = "didexchange-complete"

\* C18: the response by reference was refused for want of a signer: the
\* connection keeps the invitation's target and its completion is pending.
ResponseByReferenceRefused ==
  /\ last.kind = "didexchange-response"
  /\ last.msg.diddoc = <<>>
  /\ last.msg.did = <<MediatorPeerDid>>
  /\ last.error = "ProtocolError"
  /\ conn[last.conn].state = "response_received"
  /\ conn[last.conn].invitation_key = <<verkey_to_didkey(MediatorInvitationKey)>>
  /\ conn[last.conn].target = <<Target(<<MediatorInvitationKey>>, MediatorEndpoint)>>
  /\ completed[conn[last.conn].fut] = None
  /\ sent = <<>>

\* C19: a DID-exchange request whose did_doc~attach signature does not
\* verify makes the inviter abort: the handler raises ProtocolError, no
\* connection is created or registered, nothing is sent, no handler is left
\* to complete, and no completion fires.
BadSignatureAborts ==
  [][ ( /\ last'.kind = "didexchange-request"
        /\ last'.msg.diddoc # <<>>
        /\ ~last'.msg.sig_ok )
      => /\ last'.error = "ProtocolError"
         /\ conn' = conn
         /\ connections' \subseteq connections
         /\ completed' = completed
         /\ inflight' = inflight
         /\ sent' = <<>> ]_vars

\* C19: a request with a bad signature was handled on an invitation in
\* invite_sent: no relationship connection, no completion.
BadSignatureRefused ==
  \E i \in Invitations :
    /\ last.kind = "didexchange-request"
    /\ last.conn = i
    /\ last.msg.diddoc # <<>>
    /\ ~last.msg.sig_ok
    /\ last.error = "ProtocolError"
    /\ conn[i].state = "invite_sent"
    /\ Len(conn) = 1
    /\ completed[i] = None
    /\ sent = <<>>

ConnectionProtocolKinds ==
  { "request", "response", "ping", "ping_response",
    "didexchange-request", "didexchange-response", "didexchange-complete" }

\* A handler aborted because the machine rejected the event or because the
\* signature of the response or of the attachment did not verify.
AbortedOnTransitionOrSignature ==
  /\ last.kind \in ConnectionProtocolKinds
  /\ \/ last.error = "TransitionNotAllowed"
     \/ last.error \in { "SignatureInvalid", "ProtocolError" } /\ ~last.msg.sig_ok

\* C24: when a connection-protocol handler aborts because the state machine
\* rejected the event or because a signature check failed, a problem report
\* is sent to the peer on the originating connection (which has a target to
\* send to).
ConnectionAbortReported ==
  AbortedOnTransitionOrSignature /\ last.conn \in connections /\ CanSend(conn[last.conn])
  => \E i \in 1..Len(sent) :
       sent[i].type = "problem-report" /\ sent[i].conn = last.conn

\* C24: a response whose signature does not verify has aborted the handler
\* of a connection that has a target, and nothing was sent.
ConnectionAbortSilent ==
  /\ last.kind = "response"
  /\ last.error = "SignatureInvalid"
  /\ last.conn \in connections
  /\ CanSend(conn[last.conn])
  /\ sent = <<>>

\* ------------------------------------------------------------------------
\* StoreSpec: sessions on the store.  The registry holds a connection in
\* any of the shapes to_store can meet and the agent's connection; the
\* machine of the first moves between the writes, so that a key is written
\* again with another value.
\* ------------------------------------------------------------------------

\* What a write leaves to see: the connection written and whether its key
\* was in the store already.
WriteObs(kind, c, error, duplicate) ==
  [ TaskObs(kind, error) EXCEPT
      !.conn = c, !.msg.kind = IF duplicate THEN "duplicate" ELSE "new" ]

\* async with store.session() as session:
\*     await store.store_connection(session, connection)
session_store_connection(c) ==
  LET written == store_connection(store, c, conn[c])
  IN  /\ c \in connections
      /\ store' = written.store
      /\ last' = WriteObs("store_connection", c, written.error,
                          Has(store.connections, verkey_b58(c)))
      /\ sent' = <<>>
      /\ UNCHANGED << connVars, agentVars, cm, args, retriever, posts, pc,
                      external_conn, invite_conn, inflight, invites >>

\* await store.store_agent(session, connection.verkey_b58)
session_store_agent(c) ==
  LET written == store_agent(store, verkey_b58(c))
  IN  /\ c \in connections
      /\ store' = written.store
      /\ last' = WriteObs("store_agent", c, written.error,
                          Has(store.identifiers, IDENTIFIER_AGENT))
      /\ sent' = <<>>
      /\ UNCHANGED << connVars, agentVars, cm, args, retriever, posts, pc,
                      external_conn, invite_conn, inflight, invites >>

\* await store.store_mediator(session, connection.verkey_b58)
session_store_mediator(c) ==
  LET written == store_mediator(store, verkey_b58(c))
  IN  /\ c \in connections
      /\ store' = written.store
      /\ last' = WriteObs("store_mediator", c, written.error,
                          Has(store.identifiers, IDENTIFIER_MEDIATOR))
      /\ sent' = <<>>
      /\ UNCHANGED << connVars, agentVars, cm, args, retriever, posts, pc,
                      external_conn, invite_conn, inflight, invites >>

StoreInit ==
  \E multiuse \in BOOLEAN,
     invitation_key \in { <<>>, <<verkey_b58(3)>> },
     diddoc \in { <<>>, <<MediatorDoc>> },
     target \in { <<>>, <<Target(<<MediatorKey>>, MediatorEndpoint)>> } :
    /\ multiuse = (invitation_key # <<>>)
    /\ diddoc # <<>> => target # <<>>
    /\ conn = << [ Connection(1, target) EXCEPT
                     !.state = ConnectionMachine("null", "send_invite").state,
                     !.multiuse = multiuse,
                     !.invitation_key = invitation_key,
                     !.diddoc = diddoc ],
                 Loaded(2, AgentKey, AgentEndpoint) >>
    /\ connections = 1..2
    /\ completed = [i \in 1..2 |-> None]
    /\ mediator_connection = None
    /\ agent_connection = None
    /\ agent_invitation = <<>>
    /\ agent_state = "init"
    /\ mediator_connection_event = FALSE
    /\ cm = CoordinateMediation
    /\ args = [mediator_invite |-> FALSE, enable_store |-> FALSE]
    /\ store = EmptyStore
    /\ retriever = NoRetriever
    /\ posts = <<>>
    /\ pc = [t \in {0} |-> "start"]
    /\ external_conn = [t \in {0} |-> None]
    /\ invite_conn = None
    /\ inflight = {}
    /\ invites = 0
    /\ last = TaskObs("init", "")
    /\ sent = <<>>

StoreNext ==
  \/ \E c \in Conns : session_store_connection(c)
  \/ \E c \in Conns : session_store_agent(c)
  \/ \E c \in Conns : session_store_mediator(c)
  \/ \E e \in Events : machine_event(1, e)

StoreSpec == StoreInit /\ [][StoreNext]_vars

\* The entry of the store for the connection the last write was about.
WrittenEntry ==
  CHOOSE row \in { store.connections[i] : i \in 1..Len(store.connections) } :
    row.name = verkey_b58(last.conn)

\* C29: a connection with a target that was written by store_connection
\* reads back, through value_json and from_store, with the state, multiuse,
\* invitation_key, did, verkey, sigkey, target recipients, target endpoint
\* and diddoc it had.
RoundTrip ==
  last.kind = "store_connection" /\ conn[last.conn].target # <<>>
  => /\ Has(store.connections, verkey_b58(last.conn))
     /\ from_store(value_json(WrittenEntry.value)) = Fields(last.conn, conn[last.conn])

\* C29: the first connection, whose verkey starts with a zero byte, was
\* written with a target, a DID document, an invitation key and multiuse
\* set, and reads back as it was.
RoundTripDone ==
  /\ last.kind = "store_connection" /\ last.conn = 1
  /\ conn[1].target # <<>> /\ conn[1].diddoc # <<>>
  /\ conn[1].invitation_key # <<>> /\ conn[1].multiuse
  /\ from_store(value_json(WrittenEntry.value)).target[1].recipients = <<MediatorKey>>
  /\ from_store(value_json(WrittenEntry.value)).verkey = verkey(1)

\* The names of the rows of a category, and that none is there twice.
OneRowPerName(rows) ==
  \A i, j \in 1..Len(rows) : rows[i].name = rows[j].name => i = j

\* The other rows of a category are left as they were by a write of name.
OthersKept(before, after, name) ==
  \A i \in 1..Len(before) :
    before[i].name # name => fetch(after, before[i].name) = <<before[i].value>>

\* C30: every store_connection, store_agent and store_mediator succeeds,
\* whether its key is in the store or not; after it the retrieve of that
\* key gives the value just written, every other key keeps its value, and
\* there is one entry per key.
WritesOverwrite ==
  [][ /\ last'.kind = "store_connection"
        => /\ last'.error = ""
           /\ fetch(retrieve_connections(store'), verkey_b58(last'.conn))
                = <<to_store(last'.conn, conn[last'.conn])>>
           /\ OthersKept(store.connections, store'.connections,
                         verkey_b58(last'.conn))
           /\ OneRowPerName(retrieve_connections(store'))
           /\ store'.identifiers = store.identifiers
      /\ last'.kind = "store_agent"
        => /\ last'.error = ""
           /\ retrieve_agent(store') = <<verkey_b58(last'.conn)>>
           /\ retrieve_mediator(store') = retrieve_mediator(store)
           /\ OneRowPerName(store'.identifiers)
           /\ store'.connections = store.connections
      /\ last'.kind = "store_mediator"
        => /\ last'.error = ""
           /\ retrieve_mediator(store') = <<verkey_b58(last'.conn)>>
           /\ retrieve_agent(store') = retrieve_agent(store)
           /\ OneRowPerName(store'.identifiers)
           /\ store'.connections = store.connections
    ]_vars

\* C30: a connection was written over its own entry with another value,
\* with the other connection's entry and both identifiers in the store.
OverwriteDone ==
  /\ last.kind = "store_connection" /\ last.msg.kind = "duplicate"
  /\ last.error = ""
  /\ Len(store.connections) = 2 /\ Len(store.identifiers) = 2
  /\ fetch(store.connections, verkey_b58(1)) = <<to_store(1, conn[1])>>
  /\ conn[1].state = "complete"

\* The connection the envelope of an interrupted request handler was
\* addressed to: the invitation whose key the connection it made carries.
AddressedTo(e) ==
  CHOOSE c \in Conns : conn[e.conn].invitation_key = <<verkey_b58(c)>>

\* The request handlers that wait in the send of their response, the one
\* the last step started left aside.
EarlierInFlight ==
  { e \in inflight :
      /\ e.op \in { "request", "oob_request" }
      /\ ~(last.error = "" /\ e.conn = Len(conn)) }

\* C23: when the handler of an envelope starts on a connection, no handler
\* of an earlier envelope addressed to that connection is still short of
\* its effects.
HandlersInArrivalOrder ==
  last.kind \in { "request", "didexchange-request" }
  => \A e \in EarlierInFlight : AddressedTo(e) # last.conn

\* C23: a second request reached its handler on a multiuse invitation while
\* the handler of the first waits in the send of its response, its
\* connection.complete() still to come.
HandlersOverlap ==
  /\ last.kind = "request" /\ last.conn \in connections
  /\ conn[last.conn].multiuse
  /\ \E e \in EarlierInFlight : /\ e.op = "request"
                                /\ AddressedTo(e) = last.conn
                                /\ completed[conn[e.conn].fut] = None

\* ------------------------------------------------------------------------
\* PostSpec: POSTs to / with envelopes for one or more recipients.  The
\* registry holds the two completed connections and an invitation that was
\* sent and has no target.
\* ------------------------------------------------------------------------

\* Most recipients an envelope lists.
MaxRecipients == 2

\* A key no connection of the registry has.
UnknownKid == bytes_to_b58(StrangerKey)

\* The kid of each recipient of the envelopes POSTed.
Kids == { verkey_b58(c) : c \in 1..3 } \cup { UnknownKid }

\* The envelopes POSTed: the recipients of the protected header, whether
\* the body parses, and the message inside, a trust ping or a basic
\* message, with ~transport.return_route = all or without.
Envelopes ==
  [ recipients : UNION { [1..n -> Kids] : n \in 0..MaxRecipients },
    malformed : BOOLEAN,
    kind : { "ping", "message" },
    return_route : BOOLEAN ]

\* Agent._recipients_from_packed_message: ValueError when the envelope or
\* its protected header is not JSON.
recipients_from_packed_message(env) ==
  IF env.malformed THEN [error |-> "ValueError", recipients |-> <<>>]
  ELSE [error |-> "", recipients |-> env.recipients]

\* Agent.connections_for_message: the registered connection of each
\* recipient that has one, in the order of the recipients;
\* ConnectionNotFound when there is none.
connections_for_message(env) ==
  LET recips == recipients_from_packed_message(env)
      known(kid) == \E c \in connections : verkey_b58(c) = kid
      found == SelectSeq(recips.recipients, known)
  IN  IF recips.error # "" THEN [error |-> recips.error, connections |-> <<>>]
      ELSE IF found = <<>> THEN [error |-> "ConnectionNotFound", connections |-> <<>>]
      ELSE [ error |-> "",
             connections |-> [i \in 1..Len(found) |->
                                CHOOSE c \in connections : verkey_b58(c) = found[i]] ]

\* session.handle(packed_message) on connection c with fields r: the
\* handler of the message inside runs to its end.  Its reply goes to the
\* session (response.append) when the message asked for the return route
\* and is POSTed to the target otherwise; the exception that leaves it.
session_handle(c, r, env) ==
  LET mc == ConnectionMachine(r.state, "receive_ping")
      rs == ConnectionMachine(mc.state, "send_ping_response")
      type == IF env.kind = "ping" THEN "ping_response" ELSE "message"
      error == IF env.kind = "ping" /\ mc.error # "" THEN mc.error
               ELSE IF ~CanSend(r) THEN "SendError" ELSE ""
      reply == IF error # "" THEN <<>>
               ELSE << Packed(c, r, type, <<>>, FALSE) >>
  IN  [ r |-> IF env.kind = "ping" /\ mc.error = ""
              THEN [r EXCEPT !.state = rs.state] ELSE r,
        response |-> IF env.return_route THEN reply ELSE <<>>,
        posted |-> IF env.return_route THEN <<>> ELSE reply,
        error |-> error ]

\* Agent.handle_message: for conn in connections_for_message(...): with
\* conn.session(response.append) as session: await session.handle(...).
\* The loop over the connections cs left, from the connections c, the
\* replies of the sessions and the messages POSTed so far; an exception
\* ends it.
RECURSIVE handle_each(_, _, _, _, _, _)
handle_each(cs, env, c, handled, replies, posted) ==
  IF cs = <<>>
  THEN [ conn |-> c, handled |-> handled, response |-> replies,
         posted |-> posted, raised |-> "" ]
  ELSE LET h == session_handle(cs[1], c[cs[1]], env)
       IN  IF h.error # ""
           THEN [ conn |-> [c EXCEPT ![cs[1]] = h.r],
                  handled |-> Append(handled, cs[1]),
                  response |-> replies \o h.response,
                  posted |-> posted \o h.posted, raised |-> h.error ]
           ELSE handle_each(Tail(cs), env, [c EXCEPT ![cs[1]] = h.r],
                            Append(handled, cs[1]), replies \o h.response,
                            posted \o h.posted)

\* webserver.handle: the response of handle_message, its last reply, is
\* the body of a 200; without one, or after an exception (logged), 202.
post(env) ==
  LET found == connections_for_message(env)
      done  == IF found.error # ""
               THEN [ conn |-> conn, handled |-> <<>>, response |-> <<>>,
                      posted |-> <<>>, raised |-> found.error ]
               ELSE handle_each(found.connections, env, conn, <<>>, <<>>, <<>>)
      returned == IF done.raised = "" /\ done.response # <<>>
                  THEN << done.response[Len(done.response)] >> ELSE <<>>
  IN  /\ ServerUp
      /\ conn' = done.conn
      /\ posts' = << [ env |-> env,
                       matching |-> found.connections,
                       handled |-> done.handled,
                       response |-> done.response,
                       raised |-> done.raised,
                       status |-> IF returned # <<>> THEN 200 ELSE 202,
                       body |-> returned ] >>
      /\ last' = TaskObs("post", done.raised)
      /\ sent' = done.posted
      /\ UNCHANGED << connections, completed, agentVars, cm, args, store,
                      retriever, pc, external_conn, invite_conn, inflight,
                      invites >>

PostInit ==
  /\ conn = << Loaded(1, MediatorKey, MediatorEndpoint),
               Loaded(2, AgentKey, AgentEndpoint),
               [ Connection(3, <<>>) EXCEPT
                   !.state = ConnectionMachine("null", "send_invite").state ] >>
  /\ connections = 1..3
  /\ completed = [i \in 1..3 |-> None]
  /\ mediator_connection = 1
  /\ agent_connection = 2
  /\ agent_invitation = <<>>
  /\ agent_state = "setup"
  /\ mediator_connection_event = FALSE
  /\ cm = CoordinateMediation
  /\ args = [mediator_invite |-> FALSE, enable_store |-> FALSE]
  /\ store = EmptyStore
  /\ retriever = NoRetriever
  /\ posts = <<>>
  /\ pc = [t \in {0} |-> "await_invite"]
  /\ external_conn = [t \in {0} |-> None]
  /\ invite_conn = None
  /\ inflight = {}
  /\ invites = 0
  /\ last = TaskObs("init", "")
  /\ sent = <<>>

PostNext == \E env \in Envelopes : post(env)

PostSpec == PostInit /\ [][PostNext]_vars

\* C21: every registered connection among the recipients of an envelope
\* has the envelope unpacked and dispatched for it, also when the handling
\* for another of them failed.
EachRecipientHandled ==
  \A i \in 1..Len(posts) :
    \A j \in 1..Len(posts[i].matching) :
      \E k \in 1..Len(posts[i].handled) : posts[i].handled[k] = posts[i].matching[j]

\* C21: an envelope for the invitation and the agent's connection: the
\* handler raised for the first and the second was never handled.
RecipientSkipped ==
  /\ posts # <<>>
  /\ posts[1].matching = <<3, 2>>
  /\ posts[1].handled = <<3>>
  /\ posts[1].raised # ""

\* C22: the answer to a POST is 200 with one packed reply exactly when the
\* handling produced a reply on the return route, and 202 without a body in
\* every other case.
ReplyReturnedIffProduced ==
  \A i \in 1..Len(posts) :
    /\ posts[i].status = 200 /\ Len(posts[i].body) = 1 <=> posts[i].response # <<>>
    /\ posts[i].status # 200 => posts[i].status = 202 /\ posts[i].body = <<>>

\* C22: the agent's connection replied to a ping on the return route, the
\* handler of the next recipient raised, and the answer is 202 with no
\* body.
ReplyDropped ==
  /\ posts # <<>>
  /\ posts[1].env.return_route
  /\ posts[1].handled = <<2, 3>>
  /\ Len(posts[1].response) = 1
  /\ posts[1].raised # ""
  /\ posts[1].status = 202 /\ posts[1].body = <<>>

\* ------------------------------------------------------------------------
\* RestartSpec: main() with --enable-store from the store an earlier run
\* saved once both connections were complete, then the retriever until
\* main is cancelled or retriever.start() returns.  The mediator of the
\* earlier run listed a ws endpoint in its DID document or none.
\* ------------------------------------------------------------------------

SavedStores ==
  { SavedStore(MediatorDoc), SavedStore(Doc(MediatorKey, MediatorEndpoint)) }

RestartInit ==
  \E st \in SavedStores, invite \in BOOLEAN :
    LET loaded == load_connections_from_store(st)
    IN  /\ conn = loaded.conn
        /\ connections = 1..Len(loaded.conn)
        /\ completed = [i \in 1..Len(loaded.conn) |-> None]
        /\ mediator_connection = loaded.mediator_connection
        /\ agent_connection = loaded.agent_connection
        /\ agent_invitation = <<>>
        /\ agent_state = "init"
        /\ mediator_connection_event = FALSE
        /\ cm = CoordinateMediation
        /\ args = [mediator_invite |-> invite, enable_store |-> TRUE]
        /\ store = st
        /\ retriever = NoRetriever
        /\ posts = <<>>
        /\ pc = [t \in {0} |-> "start"]
        /\ external_conn = [t \in {0} |-> None]
        /\ invite_conn = None
        /\ inflight = {}
        /\ invites = 0
        /\ last = TaskObs("init", "")
        /\ sent = <<>>

\* main's steps on this path, up to the save.
RestartMain ==
  \/ main_start
  \/ main_agent_check
  \/ main_ready

RestartNext ==
  \/ RestartMain
  \/ main_saved
  \/ RetrieverStep
  \/ \E m \in ForwardMsgs : ws_frame(m)
  \/ \E c \in Conns : ping(c, Msg("ping"))
  \/ pc[0] = "ready" /\ main_cancelled

\* The event loop runs main and the transaction of the save ends, the
\* timers of the poll loop expire, a task that was cancelled or whose socket
\* was closed ends, and stop() goes on once what it awaits is done.  Whether
\* and when the mediator accepts, sends on or ends the session is up to the
\* mediator.
RestartFairness ==
  /\ WF_vars(RestartMain)
  /\ []<>(pc[0] # "save_connections")
  /\ WF_vars(poll)
  /\ WF_vars(ws_closed) /\ WF_vars(ws_cancelled)
  /\ WF_vars(stop_closed) /\ WF_vars(stop_returned)

RestartSpec == RestartInit /\ [][RestartNext]_vars /\ RestartFairness

\* The web socket session of the retriever is over.
SessionOver == retriever.sessions > 0 /\ retriever.socket # "open"

\* retriever.start() has returned, or was cancelled with main.
StartEnded == retriever.start \in { "returned", "cancelled" }

\* The last step was a round of the poll loop that sent a ping.
PollSentPing == last.kind = "poll" /\ sent # <<>>

\* C25: the retriever opens one web socket session at most; once that
\* session is over no ping is sent and start() ends, by returning unless
\* main is cancelled first; a round of the poll loop sends when there is a
\* socket, and then exactly one trust ping with response_requested false
\* and return_route all; and while the session is open the poll loop runs
\* and its next round comes.
RetrieverDoesNotReconnect ==
  /\ [](retriever.sessions <= 1)
  /\ [](SessionOver => ~PollSentPing)
  /\ [](PollSentPing =>
          /\ retriever.socket = "open"
          /\ Len(sent) = 1
          /\ sent[1].type = "ping" /\ sent[1].return_route
          /\ ~sent[1].body.response_requested
          /\ sent[1].conn = mediator_connection)
  /\ [](retriever.socket = "open" => retriever.start = "sleep")
  /\ (SessionOver ~> StartEnded)
  /\ (retriever.socket = "open" ~> (PollSentPing \/ retriever.socket # "open"))

\* C25: the one session of the run is over, the poll loop saw that there is
\* no socket, start() returned and main ended after the retriever's stop.
RetrieverGaveUp ==
  /\ retriever.sessions = 1 /\ retriever.socket = "none"
  /\ retriever.ws_task = "done"
  /\ retriever.start = "returned"
  /\ pc[0] = "exited"

\* C26: once stop() has returned the socket is not open, the ws task and
\* the poll loop have ended, no ping was sent since, and stop() let no
\* CancelledError out.
StopStopsCleanly ==
  retriever.stop = "returned"
  => /\ retriever.socket \in { "none", "closed" }
     /\ retriever.ws_task \in { "done", "cancelled" }
     /\ ~retriever.cancel_requested
     /\ retriever.start \in { "returned", "raised", "cancelled" }
     /\ ~PollSentPing
     /\ retriever.escaped = ""
     /\ pc[0] # "stopping"

\* C26: stop() returned after main was cancelled before the socket opened:
\* the ws task was cancelled in its connect, and its CancelledError was
\* suppressed.
StoppedBeforeOpen ==
  /\ retriever.stop = "returned"
  /\ retriever.start = "cancelled"
  /\ retriever.sessions = 0
  /\ retriever.ws_task = "cancelled"
  /\ retriever.escaped = ""

\* The connection in the mediator slot lists a ws endpoint.
MediatorHasWs ==
  /\ mediator_connection # None
  /\ MessageRetriever(mediator_connection, conn[mediator_connection]).error = ""

\* After the restart the registry holds both connections, both slots are
\* set, main neither receives nor makes an invitation, and no connection
\* request and no mediate-request is sent.
NoNewHandshake ==
  /\ connections = {1, 2}
  /\ mediator_connection = 1 /\ agent_connection = 2
  /\ conn[1].state = "complete" /\ conn[2].state = "complete"
  /\ agent_invitation = <<>> /\ invite_conn = None
  /\ pc[0] \notin { "await_invite", "receive_mediator_invite", "await_completion",
                    "request_mediation", "send_mediate_request", "await_grant",
                    "await_keylist_update_response", "await_agent_completion" }
  /\ \A i \in 1..Len(sent) :
       sent[i].type \notin { "request", "didexchange-request", "mediate-request" }

\* C27: restarted from a store with both connections and both identifiers,
\* the proxy attempts no new handshake and reaches status ready.
RestartReachesReady ==
  []NoNewHandshake /\ <>(agent_state = "ready")

\* C27: restarted from a store with both connections and both identifiers,
\* the proxy attempts no new handshake; it reaches status ready when the
\* mediator's stored DID document lists a ws endpoint, and main ends with
\* the ValueError of MessageRetriever(...) when it lists none.
RestartSkipsHandshake ==
  /\ []NoNewHandshake
  /\ (MediatorHasWs ~> agent_state = "ready")
  /\ (~MediatorHasWs ~> pc[0] = "ValueError")
  /\ [](agent_state = "ready" => MediatorHasWs)

\* C27: the proxy is ready after a restart: both connections were loaded,
\* saved again, and the retriever was started.
RestartedReady ==
  /\ agent_state = "ready" /\ pc[0] = "ready"
  /\ last.kind = "main_saved"
  /\ connections = {1, 2}
  /\ retriever.ws_task = "connecting"
  /\ Len(store.connections) = 2 /\ Len(store.identifiers) = 2

\* What the store holds for each connection of the registry is what
\* to_store gives for it now.
StoreReflectsRegistry ==
  \A c \in connections :
    fetch(store.connections, verkey_b58(c)) = <<to_store(c, conn[c])>>

\* C28: when main has been cancelled with the store enabled and connections
\* in the registry, the store holds every connection of the registry as it
\* is.
SavedAtShutdown ==
  pc[0] = "CancelledError" /\ args.enable_store /\ connections # {}
  => StoreReflectsRegistry

\* C28: main was cancelled with a connection in the registry and the store
\* enabled, and the store is empty.
ShutdownWithoutSave ==
  /\ pc[0] = "CancelledError" /\ last.kind = "main_cancelled"
  /\ args.enable_store
  /\ connections # {}
  /\ store = EmptyStore

\* ------------------------------------------------------------------------
\* RouteSpec: the routes of the protocol modules.  A message type is the
\* text doc_uri + protocol + "/" + version + "/" + name; it is kept here as
\* the tuple of these four parts.
\* ------------------------------------------------------------------------

\* The two document URIs.
DIDCOMM_OLD == "did:sov:BzCbsNYhMrjHiqZDTUASHg;spec/"

DIDCOMM == "https://didcomm.org/"

\* The protocol modules.
Modules ==
  { "BasicMessage", "Routing", "Connections", "CoordinateMediation",
    "OobDidExchange" }

\* Module.protocol, the text ModuleRouter(protocol) takes, in its parts.
ModuleProtocol(module) ==
  CASE module = "BasicMessage" -> << DIDCOMM_OLD, "basicmessage", "1.0" >>
    [] module = "Routing" -> << DIDCOMM_OLD, "routing", "1.0" >>
    [] module = "Connections" -> << DIDCOMM_OLD, "connections", "1.0" >>
    [] module = "CoordinateMediation" -> << DIDCOMM_OLD, "coordinate-mediation", "1.0" >>
    [] module = "OobDidExchange" -> << DIDCOMM, "didexchange", "1.0" >>

\* The arguments of one @route: <<>> for each one not given.
RouteArgs(doc_uri, protocol, version, name) ==
  [ doc_uri |-> doc_uri, protocol |-> protocol, version |-> version,
    name |-> name ]

\* The bare @route.
Bare == RouteArgs(<<>>, <<>>, <<>>, <<>>)

\* @route(doc_uri=...).
DocUri(doc_uri) == RouteArgs(<<doc_uri>>, <<>>, <<>>, <<>>)

\* The @route decorators of a module: the function decorated and the
\* arguments given.
Decorators(module) ==
  CASE module = "BasicMessage" ->
         { [fn |-> "message", args |-> a] : a \in { Bare, DocUri(DIDCOMM) } }
    [] module = "Routing" ->
         { [fn |-> "forward", args |-> a] : a \in { Bare, DocUri(DIDCOMM) } }
    [] module = "Connections" ->
         { [fn |-> f, args |-> a] :
             f \in { "request", "response" }, a \in { Bare, DocUri(DIDCOMM) } }
         \cup
         { [fn |-> f,
            args |-> RouteArgs(d, <<"trust_ping">>, <<"1.0">>, <<f>>)] :
             f \in { "ping", "ping_response" }, d \in { <<>>, <<DIDCOMM>> } }
    [] module = "CoordinateMediation" ->
         { [fn |-> f[1], args |-> RouteArgs(d, <<>>, <<>>, <<f[2]>>)] :
             f \in { << "mediate_request", "mediate-request" >>,
                     << "mediate_grant", "mediate-grant" >>,
                     << "keylist_update", "keylist-update" >>,
                     << "keylist_update_response", "keylist-update-response" >> },
             d \in { <<>>, <<DIDCOMM>> } }
    [] module = "OobDidExchange" ->
         { [fn |-> f, args |-> a] :
             f \in { "request", "response", "complete" },
             a \in { Bare, DocUri(DIDCOMM_OLD) } }

\* An argument of @route, or the router's default for it.
Given(arg, default) == IF arg = <<>> THEN default ELSE arg[1]

\* A router that does not look at the doc_uri it is given.
route_ignoring_doc_uri(module, d) ==
  << ModuleProtocol(module)[1],
     Given(d.args.protocol, ModuleProtocol(module)[2]),
     Given(d.args.version, ModuleProtocol(module)[3]),
     Given(d.args.name, d.fn) >>

\* ModuleRouter.route: the type a decorator registers its function under.
\* The parts not given are those of the module's protocol, and the name is
\* the function's.
route(module, d) ==
  << Given(d.args.doc_uri, ModuleProtocol(module)[1]),
     Given(d.args.protocol, ModuleProtocol(module)[2]),
     Given(d.args.version, ModuleProtocol(module)[3]),
     Given(d.args.name, d.fn) >>

\* Module.routes: the handlers by type.
routes(module) ==
  { [type |-> route(module, d), handler |-> d.fn] : d \in Decorators(module) }

\* The handlers a module has for a type.
HandlersFor(module, type) ==
  { r.handler : r \in { r \in routes(module) : r.type = type } }

\* The types looked up in a module's routes: every message name of every
\* module, under the module's protocol and under trust_ping, with the two
\* document URIs and with another one.
MsgTypes(module) ==
  { << d, p, "1.0", n >> :
      d \in { DIDCOMM_OLD, DIDCOMM, "https://example.org/" },
      p \in { ModuleProtocol(module)[2], "trust_ping" },
      n \in UNION { { r.type[4] : r \in routes(m) } : m \in Modules }
            \cup { "invitation" } }

\* `msg_type in module.routes`, and the handler found.
dispatch(module, type) ==
  LET found == HandlersFor(module, type)
  IN  /\ last' = [ TaskObs("dispatch",
                           IF found = {} THEN "NoRegisteredHandlerException"
                           ELSE "")
                     EXCEPT !.msg = [ module |-> module, type |-> type,
                                      handlers |-> found ] ]
      /\ sent' = <<>>
      /\ UNCHANGED << connVars, agentVars, cm, taskVars >>

RouteNext ==
  \E module \in Modules : \E type \in MsgTypes(module) : dispatch(module, type)

\* The modules are made before any connection is.
RouteInit ==
  /\ conn = <<>>
  /\ connections = {}
  /\ completed = <<>>
  /\ mediator_connection = None
  /\ agent_connection = None
  /\ agent_invitation = <<>>
  /\ agent_state = "init"
  /\ mediator_connection_event = FALSE
  /\ cm = CoordinateMediation
  /\ args = [mediator_invite |-> FALSE, enable_store |-> FALSE]
  /\ store = EmptyStore
  /\ retriever = NoRetriever
  /\ posts = <<>>
  /\ pc = [t \in {0} |-> "start"]
  /\ external_conn = [t \in {0} |-> None]
  /\ invite_conn = None
  /\ inflight = {}
  /\ invites = 0
  /\ last = TaskObs("init", "")
  /\ sent = <<>>

RouteSpec == RouteInit /\ [][RouteNext]_vars

\* C31: a type a module has a handler for has one handler, and the same
\* message name under the legacy prefix and under the didcomm.org prefix is
\* in the module's routes with that handler.
BothPrefixesRouted ==
  last.kind = "dispatch" /\ last.error = ""
  => /\ Cardinality(last.msg.handlers) = 1
     /\ \A d \in { DIDCOMM_OLD, DIDCOMM } :
          HandlersFor(last.msg.module, [last.msg.type EXCEPT ![1] = d])
            = last.msg.handlers

\* C31: the forward type with the didcomm.org prefix was looked up in the
\* routes of Routing and its handler is forward.
ForwardRoutedUnderDidcomm ==
  /\ last.kind = "dispatch"
  /\ last.msg.module = "Routing"
  /\ last.msg.type = << DIDCOMM, "routing", "1.0", "forward" >>
  /\ last.msg.handlers = { "forward" }

\* ------------------------------------------------------------------------
\* PeerDocSpec: the invitee's side with responses whose signed DID document
\* names any text as its service endpoint.
\* ------------------------------------------------------------------------

\* A service endpoint that is no URL.
NotAUrl == "not a url"

\* Responses signed by the invitation key, with the mediator's document or
\* with one whose serviceEndpoint is no URL.
PeerDocResponseMsgs ==
  ResponseMsgs
  \cup { [Msg("response") EXCEPT
            !.signer = MediatorInvitationKey,
            !.diddoc = <<Doc(MediatorKey, NotAUrl)>>] }

PeerDocNext ==
  \/ \E oob \in BOOLEAN : handle_oob_and_connections_invites(oob)
  \/ \E e \in inflight : receive_mediator_invite_done(e)
  \/ \E c \in Conns, m \in PeerDocResponseMsgs : response(c, m)
  \/ \E c \in Conns, m \in DidExchangeResponseMsgs : oob_response(c, m)
  \/ \E c \in Conns : ping_response(c, Msg("ping_response"))

PeerDocSpec == HandshakeInit /\ [][PeerDocNext]_vars /\ HandshakeFairness

\* The completion signal of connection c has fired or its state is complete.
IsCompleted(c) ==
  conn[c].state = "complete" \/ completed[conn[c].fut] # None

\* The endpoints that are URLs.
ValidUrls == HttpEndpoints \cup WsEndpoints

\* C32: every completed connection has a target with recipients and an
\* endpoint that is a URL.
CompletedHaveValidTarget ==
  \A c \in Conns :
    IsCompleted(c)
    => /\ conn[c].target # <<>>
       /\ conn[c].target[1].recipients # <<>>
       /\ conn[c].target[1].endpoint \in ValidUrls

\* C32: a response signed by the invitation key was accepted and completed
\* the connection, whose target's endpoint is the text of the response's
\* document, which is no URL.
CompletedWithBadEndpoint ==
  \E c \in Conns :
    /\ last.kind = "response" /\ last.conn = c /\ last.error = ""
    /\ completed[conn[c].fut] = c
    /\ conn[c].state = "complete"
    /\ conn[c].target[1].endpoint = NotAUrl

\* C33: a frame whose handling failed leaves the reader as it was, reading
\* on the open socket with main where it was; and a frame that comes after
\* a failure was logged is handled as any frame is: the forward in it is
\* dispatched, and delivered to the agent when Routing.forward accepts it.
ReaderSurvivesFrameFailure ==
  [][ last'.kind = "forward"
      => /\ retriever'.ws_task = "reading" /\ retriever'.socket = "open"
         /\ retriever'.sessions = retriever.sessions
         /\ pc' = pc
         /\ last'.error = forward_error(retriever.connection, last'.msg)
         /\ (retriever.logged /\ last'.error = ""
               => /\ Len(sent') = 1
                  /\ sent'[1].via = "_send"
                  /\ sent'[1].body = json_dumps(last'.msg.msg[1])) ]_vars

\* C33: after the failure of a frame was logged, a later frame of the same
\* session was delivered to the agent.
FrameDeliveredAfterFailure ==
  /\ retriever.logged
  /\ retriever.sessions = 1 /\ retriever.ws_task = "reading"
  /\ last.kind = "forward" /\ last.error = ""
  /\ Len(sent) = 1 /\ sent[1].via = "_send"

\* C34: when the proxy is ready, upstream mediation is established in the
\* coordinate-mediation module (the request was made and granted, endpoint
\* and routing keys are recorded), and a mediate-request handled then is
\* not refused with ExternalMediationNotEstablished.
ReadyMeansMediationEstablished ==
  agent_state = "ready"
  => /\ Granted
     /\ cm.external_mediator_endpoint # <<>>
     /\ cm.external_mediator_routing_keys # <<>>
     /\ (last.kind = "mediate-request"
           => last.error # "ExternalMediationNotEstablished")

\* C34: the proxy is ready after a restart from the store, no mediation
\* request was ever made in this run, and the agent's mediate-request was
\* refused with ExternalMediationNotEstablished.
ReadyWithoutMediation ==
  /\ agent_state = "ready"
  /\ cm.external_pending_request = <<>>
  /\ last.kind = "mediate-request"
  /\ last.conn = agent_connection
  /\ last.error = "ExternalMediationNotEstablished"

\* ------------------------------------------------------------------------
\* BootstrapSpec: main on a fresh start (nothing in the store), with the
\* admin route and the messages of the peers that main waits for
\* ------------------------------------------------------------------------

BootstrapInit ==
  \E invite \in BOOLEAN :
    /\ conn = <<>>
    /\ connections = {}
    /\ completed = <<>>
    /\ mediator_connection = None
    /\ agent_connection = None
    /\ agent_invitation = <<>>
    /\ agent_state = "init"
    /\ mediator_connection_event = FALSE
    /\ cm = CoordinateMediation
    /\ args = [mediator_invite |-> invite, enable_store |-> TRUE]
    /\ store = EmptyStore
    /\ retriever = NoRetriever
    /\ posts = <<>>
    /\ pc = [t \in {0} |-> "start"]
    /\ external_conn = [t \in {0} |-> None]
    /\ invite_conn = None
    /\ inflight = {}
    /\ invites = 0
    /\ last = TaskObs("init", "")
    /\ sent = <<>>

BootstrapNext ==
  \/ MainStep
  \/ main_saved
  \/ Continue
  \/ Shutdown
  \/ admin_receive_mediator_invitation
  \/ \E c \in Conns, m \in MainGrantMsgs : mediate_grant(c, m)
  \/ \E c \in Conns : keylist_update_response(c, Msg("keylist-update-response"))
  \/ \E c \in Conns : request(c, AgentRequest)
  \/ \E c \in Conns, m \in ResponseMsgs : response(c, m)

BootstrapSpec == BootstrapInit /\ [][BootstrapNext]_vars /\ Fairness

\* C35: on a fresh start the agent invitation is made by main alone and at
\* its check of the agent connection, which main comes to from the await of
\* the keylist-update-response, by that response, with the completion of
\* its mediator connection fired and the upstream grant received; status
\* ready holds only with both slots set, and is never left.
BootstrapOrdered ==
  /\ [][ agent_invitation' # agent_invitation
         => /\ agent_invitation = <<>>
            /\ pc[0] = "agent_check"
            /\ last'.kind = "main_agent_check" ]_vars
  /\ [][ pc'[0] = "agent_check" /\ pc[0] # "agent_check"
         => /\ pc[0] = "await_keylist_update_response"
            /\ last'.kind = "keylist-update-response"
            /\ last'.conn = external_conn[0]
            /\ completed[conn[external_conn[0]].fut] # None
            /\ Granted ]_vars
  /\ [](agent_state = "ready"
          => mediator_connection # None /\ agent_connection # None)
  /\ [][ agent_state = "ready" => agent_state' = "ready" ]_vars

\* C35: the proxy is ready after a fresh start: the grant was received, the
\* agent invitation was made and the agent's connection is in its slot.
BootstrappedReady ==
  /\ agent_state = "ready" /\ pc[0] = "ready"
  /\ store # EmptyStore
  /\ Granted
  /\ agent_invitation # <<>>
  /\ agent_connection # None /\ mediator_connection # None

\* C36: a mediate-grant that arrives on a connection other than the one the
\* pending mediate-request was sent to changes neither the stored upstream
\* endpoint and routing keys nor the pending request.
GrantOnlyFromRequestedConnection ==
  [][ /\ last'.kind = "mediate-grant"
      /\ cm.external_pending_request # <<>>
      /\ last'.conn # cm.external_pending_request[1].connection
      => cm' = cm ]_vars

\* C36: a mediate-grant from a connection the request was not sent to was
\* accepted: its endpoint and routing keys are stored and the pending
\* request is complete.
GrantFromOtherConnectionAccepted ==
  /\ last.kind = "mediate-grant" /\ last.error = ""
  /\ cm.external_pending_request # <<>>
  /\ last.conn # cm.external_pending_request[1].connection
  /\ cm.external_mediator_endpoint = last.msg.endpoint
  /\ cm.external_mediator_routing_keys = last.msg.routing_keys
  /\ is_complete(cm.external_pending_request)

\* C37: a response that a connection in request_sent refuses, because its
\* signature does not verify or its signer is not the invitation key, leaves
\* the connection (state, target, diddoc) and the completion futures as they
\* were.
RejectedResponseLeavesConnection ==
  [][ /\ last'.kind \in { "response", "didexchange-response" }
      /\ last'.conn \in Conns
      /\ conn[last'.conn].state = "request_sent"
      /\ ~SignedByInvitationKey(last'.conn, last'.msg)
      /\ last'.error # ""
      => /\ conn' = conn
         /\ completed' = completed ]_vars

\* C37: a response validly signed by the invitation key was refused with
\* TransitionNotAllowed, because an earlier refused response had left the
\* connection in response_received.
ValidResponseRefusedAfterRejected ==
  \E c \in Invitees :
    /\ last.kind = "response" /\ last.conn = c
    /\ SignedByInvitationKey(c, last.msg)
    /\ last.error = "TransitionNotAllowed"
    /\ conn[c].state = "response_received"
    /\ conn[c].diddoc = <<>>
    /\ completed[conn[c].fut] = None

\* C38: a completion future is settled at most once: no handler ends with the
\* InvalidStateError of complete() on a future that is done, and a future
\* that holds a result keeps it.
CompletedSettledOnce ==
  [][ /\ last'.error # "InvalidStateError"
      /\ \A f \in 1..Len(completed) :
           completed[f] # None => completed'[f] = completed[f] ]_vars

\* C38: a multiuse invitation whose future a first request has settled got
\* a further request, which the machine refused before any relationship
\* connection was made.
SecondRequestOnSettledInvitation ==
  \E c \in Conns :
    /\ conn[c].multiuse
    /\ completed[conn[c].fut] # None
    /\ completed[conn[c].fut] # c
    /\ last.kind = "request" /\ last.conn = c
    /\ last.error = "TransitionNotAllowed"

\* C39: a slot that is set names a connection the registry holds, and the
\* agent connection is a relationship connection, which has sent its
\* response, never the invitation main created.
SlotsAreRegistered ==
  /\ mediator_connection # None => mediator_connection \in connections
  /\ agent_connection # None =>
       /\ agent_connection \in connections
       /\ agent_connection # invite_conn
       /\ conn[agent_connection].state \in { "response_sent", "complete" }

\* C39: a connection request arrived on the connection a slot names: the
\* handler took the connection out of the registry and was then refused by
\* the machine, and the slot names it still.
SlotConnectionPopped ==
  \E c \in Conns :
    /\ c \in { mediator_connection, agent_connection }
    /\ c \notin connections
    /\ last.kind = "request" /\ last.conn = c
    /\ last.error = "TransitionNotAllowed"

\* C40: the pending upstream request, once set, is never cleared nor
\* replaced; a call of request_mediation_from_external that finds it set,
\* granted or not, ends with RequestAlreadyPending, sends nothing and leaves
\* the mediation state alone; and a mediate-grant that finds it set stores
\* its endpoint and routing keys over those of the grants before it.
PendingRequestSetOnce ==
  [][ cm.external_pending_request # <<>> =>
        /\ cm'.external_pending_request # <<>>
        /\ cm'.external_pending_request[1].connection
             = cm.external_pending_request[1].connection
        /\ cm.external_pending_request[1].event
             => cm'.external_pending_request[1].event
        /\ last'.kind = "request_mediation_from_external" =>
             /\ last'.error = "RequestAlreadyPending"
             /\ sent' = <<>>
             /\ cm' = cm
        /\ last'.kind = "mediate-grant" =>
             /\ last'.error = ""
             /\ cm'.external_mediator_endpoint = last'.msg.endpoint
             /\ cm'.external_mediator_routing_keys = last'.msg.routing_keys ]_vars

\* C40: a call made after the first request had been granted failed with
\* RequestAlreadyPending and sent nothing; the grant stored is the one with
\* the websocket endpoint.
CallAfterGrantFailed ==
  /\ last.kind = "request_mediation_from_external"
  /\ last.error = "RequestAlreadyPending"
  /\ sent = <<>>
  /\ Granted
  /\ cm.external_mediator_endpoint = <<"ws://mediator:3000/ws">>

====
